---------------------------- MODULE Spec2Model ----------------------------
(***************************************************************************)
(* A model of the fact checker's evidence reconciliation and scoring       *)
(* engine (src/app/agents/curator.py, src/app/agents/scorer.py) and of the *)
(* analyze workflow that drives it (src/app/routes.py).                    *)
(*                                                                         *)
(* Texts are sequences of one-character strings, so that lower-casing,     *)
(* substring tests and the regular expressions of the source are computed  *)
(* character by character.  Python floats are IEEE-754 binary64 numbers,   *)
(* modelled exactly (53-bit significand, round to nearest, ties to even)   *)
(* on top of a small multi-precision natural number library.               *)
(***************************************************************************)
EXTENDS Integers, Sequences, FiniteSets, TLC

VARIABLES
    fact1, fact2, decision,             \* _resolve_fact_classification: arguments, result
    analyses_in,                        \* review_and_reconcile_analyses: the argument
    reconciled_analyses,                \*   the list returned
    reviewed,                           \*   whether the call has returned
    articles,                           \* the articles table; an Article's id is its index
    sources, original_article_url,      \* filter_duplicate_sources: the arguments
    analyzed_article_ids,
    filtered,                           \*   the list returned
    filter_returned,                    \*   whether the call has returned
    analysis_table,                     \* the analyses table
    reports,                            \* the reports table
    clock,                              \* datetime.utcnow(), as a count of writes
    requests,                           \* analyze_article: the locals of each request
    comparator_call,                    \* the call of the comparator in the last step, if any,
                                        \* and whether the request has compared the source before
    score_in, score_out,                \* compare_and_score: the arguments, the result
    query_in, query_out,                \* optimize_search_queries: the arguments, the result
    by_id,                              \* the last operation by id: its request and response
    merge_call,                         \* merge_reports: the last call, and what it returned
    calc_in, calc_out                   \* a function of the scorer or curator: its call, its result

resolveVars == <<fact1, fact2, decision>>
reviewVars == <<analyses_in, reconciled_analyses, reviewed>>
filterVars == <<sources, original_article_url, analyzed_article_ids, filtered, filter_returned>>
workflowVars == <<analysis_table, reports, clock, requests, comparator_call>>
scoreVars == <<score_in, score_out>>
queryVars == <<query_in, query_out>>
byIdVars == <<by_id>>
mergeVars == <<merge_call>>
calcVars == <<calc_in, calc_out>>
vars == <<resolveVars, reviewVars, articles, filterVars, workflowVars, scoreVars,
          queryVars, byIdVars, mergeVars, calcVars>>

None == "None"

\* ------------------------------------------------------------------------
\* Characters and texts
\* ------------------------------------------------------------------------

DigitChars == <<"0","1","2","3","4","5","6","7","8","9">>
UpperChars == <<"A","B","C","D","E","F","G","H","I","J","K","L","M",
                "N","O","P","Q","R","S","T","U","V","W","X","Y","Z">>
LowerChars == <<"a","b","c","d","e","f","g","h","i","j","k","l","m",
                "n","o","p","q","r","s","t","u","v","w","x","y","z">>

Range(s) == {s[i] : i \in DOMAIN s}

\* s[:n]
Prefix(s, n) == SubSeq(s, 1, IF Len(s) < n THEN Len(s) ELSE n)

IsDigit(c) == c \in Range(DigitChars)

DigitVal(c) == CHOOSE d \in 0..9 : DigitChars[d + 1] = c

\* str.lower() on one character
LowerChar(c) ==
    IF c \in Range(UpperChars)
    THEN LowerChars[CHOOSE i \in DOMAIN UpperChars : UpperChars[i] = c]
    ELSE c

\* str.lower()
Lower(t) == [i \in DOMAIN t |-> LowerChar(t[i])]

\* A character that the pattern [\d\W] does not match: a letter or "_"
IsLetter(c) == c \in Range(UpperChars) \cup Range(LowerChars) \cup {"_"}

\* needle in hay (Python's substring test; the empty text is in every text)
Contains(hay, needle) ==
    \E i \in 0..(Len(hay) - Len(needle)) :
        SubSeq(hay, i + 1, i + Len(needle)) = needle

\* The end of the run of characters satisfying the class that starts at i
RECURSIVE DigitRunEnd(_, _)
DigitRunEnd(t, i) ==
    IF i + 1 <= Len(t) /\ IsDigit(t[i + 1]) THEN DigitRunEnd(t, i + 1) ELSE i

RECURSIVE LetterRunEnd(_, _)
LetterRunEnd(t, i) ==
    IF i + 1 <= Len(t) /\ IsLetter(t[i + 1]) THEN LetterRunEnd(t, i + 1) ELSE i

\* set(re.sub(r'[\d\W]+', ' ', text.lower()).strip().split()), from position i
RECURSIVE WordsFrom(_, _)
WordsFrom(t, i) ==
    IF i > Len(t) THEN {}
    ELSE IF IsLetter(t[i])
         THEN LET j == LetterRunEnd(t, i)
              IN  {SubSeq(t, i, j)} \cup WordsFrom(t, j + 1)
         ELSE WordsFrom(t, i + 1)

WordSet(t) == WordsFrom(Lower(t), 1)

\* ------------------------------------------------------------------------
\* re.findall(r'\d+(?:,\d{3})*(?:\.\d+)?', text) and r'\d+(?:,\d{3})*'
\* ------------------------------------------------------------------------

\* (?:,\d{3})* matched greedily after position j: the end of the last group
RECURSIVE ThousandsEnd(_, _)
ThousandsEnd(t, j) ==
    IF /\ j + 4 <= Len(t)
       /\ t[j + 1] = ","
       /\ IsDigit(t[j + 2]) /\ IsDigit(t[j + 3]) /\ IsDigit(t[j + 4])
    THEN ThousandsEnd(t, j + 4)
    ELSE j

\* (?:\.\d+)? matched after position j
FractionEnd(t, j) ==
    IF j + 2 <= Len(t) /\ t[j + 1] = "." /\ IsDigit(t[j + 2])
    THEN DigitRunEnd(t, j + 2)
    ELSE j

\* The end of the match that starts at the digit at position i
NumberEnd(t, i, withFraction) ==
    LET j == ThousandsEnd(t, DigitRunEnd(t, i))
    IN  IF withFraction THEN FractionEnd(t, j) ELSE j

\* The non-overlapping matches, left to right, from position i
RECURSIVE FindNumbersFrom(_, _, _)
FindNumbersFrom(t, i, withFraction) ==
    IF i > Len(t) THEN <<>>
    ELSE IF IsDigit(t[i])
         THEN LET j == NumberEnd(t, i, withFraction)
              IN  <<SubSeq(t, i, j)>> \o FindNumbersFrom(t, j + 1, withFraction)
         ELSE FindNumbersFrom(t, i + 1, withFraction)

\* re.findall(r'\d+(?:,\d{3})*(?:\.\d+)?', text)
FindNumbers(t) == FindNumbersFrom(t, 1, TRUE)

\* re.findall(r'\d+(?:,\d{3})*', text)
FindWholeNumbers(t) == FindNumbersFrom(t, 1, FALSE)

\* n.replace(',', '')
RECURSIVE RemoveCommas(_)
RemoveCommas(n) ==
    IF n = <<>> THEN <<>>
    ELSE IF Head(n) = "," THEN RemoveCommas(Tail(n))
         ELSE <<Head(n)>> \o RemoveCommas(Tail(n))

\* The decimal numeral n (digits, at most one ".") as num / 10^scale
RECURSIVE DecimalFrom(_, _, _, _)
DecimalFrom(n, num, scale, inFraction) ==
    IF n = <<>> THEN [num |-> num, scale |-> scale]
    ELSE IF Head(n) = "." THEN DecimalFrom(Tail(n), num, scale, TRUE)
         ELSE DecimalFrom(Tail(n), 10 * num + DigitVal(Head(n)),
                          IF inFraction THEN scale + 1 ELSE scale, inFraction)

Decimal(n) == DecimalFrom(RemoveCommas(n), 0, 0, FALSE)

RECURSIVE Pow(_, _)
Pow(b, k) == IF k = 0 THEN 1 ELSE b * Pow(b, k - 1)

Abs(x) == IF x < 0 THEN 0 - x ELSE x

Max(x, y) == IF x >= y THEN x ELSE y

\* ------------------------------------------------------------------------
\* Multi-precision natural numbers: little-endian sequences of limbs in
\* 0..Base-1 without a leading zero limb; <<>> is 0.
\* ------------------------------------------------------------------------

Base == 2^15

RECURSIVE IntBitLen(_)
IntBitLen(x) == IF x = 0 THEN 0 ELSE 1 + IntBitLen(x \div 2)

\* The bits of one limb
LimbBits == IntBitLen(Base - 1)

Limb(a, i) == IF i <= Len(a) THEN a[i] ELSE 0

RECURSIVE BigNorm(_)
BigNorm(a) ==
    IF a = <<>> THEN <<>>
    ELSE IF a[Len(a)] = 0 THEN BigNorm(SubSeq(a, 1, Len(a) - 1)) ELSE a

RECURSIVE BigFromInt(_)
BigFromInt(n) == IF n = 0 THEN <<>> ELSE <<n % Base>> \o BigFromInt(n \div Base)

BigOne == <<1>>

RECURSIVE BigAddFrom(_, _, _, _)
BigAddFrom(a, b, i, carry) ==
    IF i > Len(a) /\ i > Len(b)
    THEN IF carry = 0 THEN <<>> ELSE <<carry>>
    ELSE LET s == Limb(a, i) + Limb(b, i) + carry
         IN  <<s % Base>> \o BigAddFrom(a, b, i + 1, s \div Base)

BigAdd(a, b) == BigAddFrom(a, b, 1, 0)

\* a - b for a >= b
RECURSIVE BigSubFrom(_, _, _, _)
BigSubFrom(a, b, i, borrow) ==
    IF i > Len(a) THEN <<>>
    ELSE LET d == Limb(a, i) - Limb(b, i) - borrow
         IN  <<IF d < 0 THEN d + Base ELSE d>>
                 \o BigSubFrom(a, b, i + 1, IF d < 0 THEN 1 ELSE 0)

BigSub(a, b) == BigNorm(BigSubFrom(a, b, 1, 0))

RECURSIVE BigCmpFrom(_, _, _)
BigCmpFrom(a, b, i) ==
    IF i = 0 THEN 0
    ELSE IF a[i] # b[i] THEN (IF a[i] < b[i] THEN -1 ELSE 1)
         ELSE BigCmpFrom(a, b, i - 1)

\* -1, 0 or 1 as a < b, a = b or a > b
BigCmp(a, b) ==
    IF Len(a) # Len(b) THEN (IF Len(a) < Len(b) THEN -1 ELSE 1)
    ELSE BigCmpFrom(a, b, Len(a))

\* a * k for 0 <= k < Base
RECURSIVE BigMulSmallFrom(_, _, _, _)
BigMulSmallFrom(a, k, i, carry) ==
    IF i > Len(a)
    THEN IF carry = 0 THEN <<>> ELSE <<carry>>
    ELSE LET p == a[i] * k + carry
         IN  <<p % Base>> \o BigMulSmallFrom(a, k, i + 1, p \div Base)

BigMulSmall(a, k) == BigNorm(BigMulSmallFrom(a, k, 1, 0))

BigShiftLimbs(a, n) == IF a = <<>> THEN <<>> ELSE [i \in 1..n |-> 0] \o a

\* a * 2^bits
BigShl(a, bits) ==
    BigMulSmall(BigShiftLimbs(a, bits \div LimbBits), 2^(bits % LimbBits))

RECURSIVE BigMulFrom(_, _, _)
BigMulFrom(a, b, i) ==
    IF i > Len(b) THEN <<>>
    ELSE BigAdd(BigShiftLimbs(BigMulSmall(a, b[i]), i - 1), BigMulFrom(a, b, i + 1))

BigMul(a, b) == BigNorm(BigMulFrom(a, b, 1))


BigBitLen(a) ==
    IF a = <<>> THEN 0 ELSE LimbBits * (Len(a) - 1) + IntBitLen(a[Len(a)])

\* Bit i of a, bit 0 the least significant
BigBit(a, i) == (Limb(a, i \div LimbBits + 1) \div 2^(i % LimbBits)) % 2

\* a \div 2^bits for 0 <= bits < LimbBits
BigShr(a, bits) ==
    BigNorm([i \in 1..Len(a) |->
                 a[i] \div 2^bits + (Limb(a, i + 1) % 2^bits) * 2^(LimbBits - bits)])

\* The largest k in lo..hi with d * k <= r, given d * lo <= r
RECURSIVE QuotientLimb(_, _, _, _)
QuotientLimb(r, d, lo, hi) ==
    IF lo = hi THEN lo
    ELSE LET mid == (lo + hi + 1) \div 2
         IN  IF BigCmp(BigMulSmall(d, mid), r) <= 0
             THEN QuotientLimb(r, d, mid, hi)
             ELSE QuotientLimb(r, d, lo, mid - 1)

\* The limbs of r from the top limb of d up, as a number: r \div Base^(Len(d) - 1)
\* for r < d * Base
TopOf(r, d) == Limb(r, Len(d) + 1) * Base + Limb(r, Len(d))

\* Bounds of r \div d from the top limbs, for r < d * Base:
\* TopOf(r, d) \div (d[Len(d)] + 1) <= r \div d <= TopOf(r, d) \div d[Len(d)]
LowEstimate(r, d) == TopOf(r, d) \div (d[Len(d)] + 1)

HighEstimate(r, d) ==
    IF TopOf(r, d) \div d[Len(d)] < Base THEN TopOf(r, d) \div d[Len(d)] ELSE Base - 1

\* Long division of n by d > 0 from the top limb of n down, a limb at a
\* time: limb i is next, q holds the limbs of the quotient found so far and
\* r the remainder of the limbs above i; r2 is r * Base + n[i] and k the limb
\* of the quotient it gives
RECURSIVE BigDivFrom(_, _, _, _, _)
DivLimb(n, d, i, q, r2, k) ==
    IF k = 0 THEN BigDivFrom(n, d, i - 1, <<0>> \o q, r2)
    ELSE BigDivFrom(n, d, i - 1, <<k>> \o q, BigSub(r2, BigMulSmall(d, k)))

DivWith(n, d, i, q, r2) ==
    DivLimb(n, d, i, q, r2, QuotientLimb(r2, d, LowEstimate(r2, d), HighEstimate(r2, d)))

BigDivFrom(n, d, i, q, r) ==
    IF i = 0 THEN [q |-> BigNorm(q), r |-> r]
    ELSE DivWith(n, d, i, q, BigNorm(<<n[i]>> \o r))

\* The division of n * 2^bits by d * 2^bits gives the quotient of n by d
\* and 2^bits times its remainder
Unscaled(qr, bits) == [q |-> qr.q, r |-> BigShr(qr.r, bits)]

BigDivScaled(n, d, bits) == Unscaled(BigDivFrom(n, d, Len(n), <<>>, <<>>), bits)

\* [q, r] with n = q * d + r and r < d, for d > 0: n and d are scaled to
\* bring the top limb of d to Base / 2 or above, where the estimates of a
\* limb of the quotient are at most 3 apart
BigDivBy(n, d, bits) == BigDivScaled(BigShl(n, bits), BigShl(d, bits), bits)

BigDivMod(n, d) == BigDivBy(n, d, LimbBits - IntBitLen(d[Len(d)]))

\* ------------------------------------------------------------------------
\* Python floats: non-negative finite IEEE-754 binary64 numbers m * 2^e with
\* a 53-bit significand m (0 is m = <<>>); every operation rounds its exact
\* result to nearest, ties to even.  Magnitudes stay far inside the normal
\* range, so neither overflow nor subnormals occur.
\* ------------------------------------------------------------------------

SignificandBits == 53

FZero == [m |-> <<>>, e |-> 0]

FIsZero(x) == x.m = <<>>

\* The float m * 2^e for a significand m of at most 54 bits, 54 only after
\* a round-up of 2^53 - 1
Renormalized(m, e) ==
    IF BigBitLen(m) > SignificandBits
    THEN [m |-> BigShl(BigOne, SignificandBits - 1), e |-> e + 1]
    ELSE [m |-> m, e |-> e]

\* Round to nearest, ties to even: cmp compares twice the remainder with
\* the divisor
RoundsUp(cmp, q) == cmp > 0 \/ (cmp = 0 /\ BigBit(q, 0) = 1)

\* The float nearest to (qr.q + qr.r / den) * 2^e, qr.q of 53 bits
RoundQuotient(qr, den, e) ==
    Renormalized(IF RoundsUp(BigCmp(BigMulSmall(qr.r, 2), den), qr.q)
                 THEN BigAdd(qr.q, BigOne) ELSE qr.q, e)

\* The float nearest to (n / d) * 2^e for n / d in [2^52, 2^53)
RoundScaled(n, d, e) == RoundQuotient(BigDivMod(n, d), d, e)

\* The float nearest to (n / d) * 2^e, for n * 2^s / d in [2^52, 2^53)
RoundShifted(n, d, e, s) ==
    IF s >= 0 THEN RoundScaled(BigShl(n, s), d, e - s)
    ELSE RoundScaled(n, BigShl(d, 0 - s), e - s)

\* n * 2^s / d >= 2^53
Overshoots(n, d, s) ==
    IF s >= 0 THEN BigCmp(BigShl(n, s), BigShl(d, SignificandBits)) >= 0
    ELSE BigCmp(n, BigShl(d, SignificandBits - s)) >= 0

\* The shift s that brings n * 2^s / d into [2^52, 2^53): s0 or s0 - 1
ShiftFrom(n, d, s0) == IF Overshoots(n, d, s0) THEN s0 - 1 ELSE s0

\* The float nearest to (n / d) * 2^e, for naturals n and d > 0
RoundQ(n, d, e) ==
    IF n = <<>> THEN FZero
    ELSE RoundShifted(n, d, e,
                      ShiftFrom(n, d, SignificandBits + BigBitLen(d) - BigBitLen(n)))

\* float(int) for an int below 2^31, which no rounding changes
FFromInt(n) ==
    IF n = 0 THEN FZero
    ELSE [m |-> BigShl(BigFromInt(n), SignificandBits - IntBitLen(n)),
          e |-> IntBitLen(n) - SignificandBits]

\* float(numeral) for the decimal numeral num / 10^scale
FFromDecimal(dec) == RoundQ(BigFromInt(dec.num), BigFromInt(Pow(10, dec.scale)), 0)

\* The significand of x at the exponent e <= x.e
AlignedTo(x, e) == BigShl(x.m, x.e - e)

\* -1, 0 or 1 as x < y, x = y or x > y, for the common exponent e
CmpAt(x, y, e) == BigCmp(AlignedTo(x, e), AlignedTo(y, e))

FMinExp(x, y) == IF x.e < y.e THEN x.e ELSE y.e

FCmp(x, y) ==
    IF FIsZero(x) THEN (IF FIsZero(y) THEN 0 ELSE -1)
    ELSE IF FIsZero(y) THEN 1
         ELSE CmpAt(x, y, FMinExp(x, y))

FLess(x, y) == FCmp(x, y) < 0

FMax(x, y) == IF FCmp(x, y) >= 0 THEN x ELSE y

\* The exact |a - b| of two naturals
BigAbsDiff(a, b) == IF BigCmp(a, b) >= 0 THEN BigSub(a, b) ELSE BigSub(b, a)

\* x + y
FAdd(x, y) ==
    IF FIsZero(x) THEN y
    ELSE IF FIsZero(y) THEN x
         ELSE RoundQ(BigAdd(AlignedTo(x, FMinExp(x, y)), AlignedTo(y, FMinExp(x, y))),
                     BigOne, FMinExp(x, y))

\* abs(x - y)
FAbsDiff(x, y) ==
    IF FIsZero(x) THEN y
    ELSE IF FIsZero(y) THEN x
         ELSE RoundQ(BigAbsDiff(AlignedTo(x, FMinExp(x, y)), AlignedTo(y, FMinExp(x, y))),
                     BigOne, FMinExp(x, y))

\* x * y
FMul(x, y) ==
    IF FIsZero(x) \/ FIsZero(y) THEN FZero
    ELSE RoundQ(BigMul(x.m, y.m), BigOne, x.e + y.e)

\* x / y for y # 0
FDiv(x, y) == IF FIsZero(x) THEN FZero ELSE RoundQ(x.m, y.m, x.e - y.e)

\* ------------------------------------------------------------------------
\* CuratorAgent: resolving a dual classification
\* (src/app/agents/curator.py, _resolve_fact_classification and helpers)
\* ------------------------------------------------------------------------

\* An upper end of a range: a number, or float('inf')
Finite(n) == [inf |-> FALSE, val |-> n]
Inf == [inf |-> TRUE, val |-> 0]

\* EXPRESSIONS, in the insertion order in which the dict is iterated
EXPRESSIONS == <<
    [expr |-> <<"f","e","w">>, min_val |-> 0, max_val |-> Finite(20)],
    [expr |-> <<"s","o","m","e">>, min_val |-> 5, max_val |-> Finite(50)],
    [expr |-> <<"a","n","y">>, min_val |-> 0, max_val |-> Finite(20)],
    [expr |-> <<"v","a","r","i","o","u","s">>, min_val |-> 20, max_val |-> Finite(50)],
    [expr |-> <<"m","a","n","y">>, min_val |-> 20, max_val |-> Finite(200)],
    [expr |-> <<"s","e","v","e","r","a","l">>, min_val |-> 50, max_val |-> Finite(200)],
    [expr |-> <<"l","o","t">>, min_val |-> 50, max_val |-> Finite(200)],
    [expr |-> <<"l","o","t","s">>, min_val |-> 50, max_val |-> Finite(200)],
    [expr |-> <<"h","u","g","e">>, min_val |-> 200, max_val |-> Inf],
    [expr |-> <<"m","a","s","s","i","v","e">>, min_val |-> 200, max_val |-> Inf],
    [expr |-> <<"b","i","g">>, min_val |-> 200, max_val |-> Inf] >>

\* float(n.replace(',', '')) of one regex match
Float(n) == FFromDecimal(Decimal(n))

\* _numbers_within_tolerance(num1, num2); the regexes match no sign, so the
\* numbers are non-negative and abs() changes neither of them
NumbersWithinTolerance(num1, num2) ==
    IF FIsZero(num1) /\ FIsZero(num2) THEN TRUE
    ELSE FLess(FMul(FDiv(FAbsDiff(num1, num2), FMax(num1, num2)), FFromInt(100)),
               FFromInt(30))

\* min_val <= num <= max_val, as the bool the source returns
InRange(num, min_val, max_val) ==
    IF /\ FCmp(FFromInt(min_val), num) <= 0
       /\ (max_val.inf \/ FCmp(num, FFromInt(max_val.val)) <= 0)
    THEN "True" ELSE "False"

\* The loop of _check_ambiguous_expressions from entry k of EXPRESSIONS on:
\* "True" (match), "False" (no match) or None (not applicable).  The first
\* test of an entry takes the number of the second fact, the other test the
\* number of the first.
RECURSIVE AmbiguousFrom(_, _, _, _, _)
AmbiguousFrom(k, fact1_lower, fact2_lower, numbers1, numbers2) ==
    IF k > Len(EXPRESSIONS) THEN None
    ELSE IF \/ Contains(fact1_lower, EXPRESSIONS[k].expr) /\ numbers2 # <<>>
            \/ Contains(fact2_lower, EXPRESSIONS[k].expr) /\ numbers1 # <<>>
         THEN InRange(Float(IF Contains(fact1_lower, EXPRESSIONS[k].expr) /\ numbers2 # <<>>
                            THEN numbers2[1] ELSE numbers1[1]),
                      EXPRESSIONS[k].min_val, EXPRESSIONS[k].max_val)
         ELSE AmbiguousFrom(k + 1, fact1_lower, fact2_lower, numbers1, numbers2)

\* _check_ambiguous_expressions(fact1, fact2)
CheckAmbiguousExpressions(f1, f2) ==
    AmbiguousFrom(1, Lower(f1), Lower(f2), FindWholeNumbers(f1), FindWholeNumbers(f2))

\* The end of _resolve_fact_classification, on the result of
\* _check_ambiguous_expressions
ClassifiedBy(ambiguous_match) ==
    IF ambiguous_match # None
    THEN (IF ambiguous_match = "True" THEN "match" ELSE "conflict")
    ELSE "conflict"

\* _resolve_fact_classification on the numbers found in the two facts
ResolveWith(f1, f2, numbers1, numbers2) ==
    IF numbers1 # <<>> /\ numbers2 # <<>>
    THEN IF NumbersWithinTolerance(Float(numbers1[1]), Float(numbers2[1]))
         THEN "match" ELSE "conflict"
    ELSE ClassifiedBy(CheckAmbiguousExpressions(f1, f2))

\* _resolve_fact_classification(fact1, fact2): "match" or "conflict"
ResolveFactClassification(f1, f2) ==
    ResolveWith(f1, f2, FindNumbers(f1), FindNumbers(f2))

\* ------------------------------------------------------------------------
\* CuratorAgent: reviewing the fact lists of the analyses
\* (src/app/agents/curator.py, review_and_reconcile_analyses and helpers)
\* ------------------------------------------------------------------------

\* The entries of the matching and conflicting lists of a comparison result:
\* dicts (an absent key reads as the empty text) or plain strings
Dict(original, original_fact, comparison, comparison_fact, fact) ==
    [kind |-> "dict", original |-> original, original_fact |-> original_fact,
     comparison |-> comparison, comparison_fact |-> comparison_fact,
     fact |-> fact, text |-> <<>>, confidence |-> None, match_strength |-> None,
     conflict_type |-> None, conflict_severity |-> None, category |-> None]

Str(text) ==
    [kind |-> "str", original |-> <<>>, original_fact |-> <<>>,
     comparison |-> <<>>, comparison_fact |-> <<>>, fact |-> <<>>, text |-> text,
     confidence |-> None, match_strength |-> None,
     conflict_type |-> None, conflict_severity |-> None, category |-> None]

\* {"original_fact": ..., "comparison_fact": ...}, as the comparator's
\* prompt asks for the matching facts
MatchingFact(original_fact, comparison_fact) ==
    Dict(<<>>, original_fact, <<>>, comparison_fact, <<>>)

\* The dict with a 'confidence': "high", "medium" or "low"
WithConfidence(fact, confidence) == [fact EXCEPT !.confidence = confidence]

\* {"original": ..., "comparison": ...}, as asked for the conflicting facts
ConflictingFact(original, comparison) ==
    Dict(original, <<>>, comparison, <<>>, <<>>)

\* a or b, on texts
Or(a, b) == IF a # <<>> THEN a ELSE b

\* _extract_fact_text(fact)
ExtractFactText(fact) ==
    IF fact.kind = "dict" THEN Or(fact.original_fact, fact.fact) ELSE fact.text

\* overlap = len(words1 & words2) / max(len(words1), len(words2)); overlap > 0.5
OverlapsByHalf(words1, words2) ==
    FLess(FFromDecimal([num |-> 5, scale |-> 1]),
          FDiv(FFromInt(Cardinality(words1 \cap words2)),
               FFromInt(Max(Cardinality(words1), Cardinality(words2)))))

SameWords(words1, words2) ==
    IF words1 = {} \/ words2 = {} THEN FALSE ELSE OverlapsByHalf(words1, words2)

\* _is_same_fact(fact1, fact2)
IsSameFact(f1, f2) == SameWords(WordSet(f1), WordSet(f2))

ConflictOriginal(conflict) ==
    IF conflict.kind = "dict" THEN conflict.original ELSE conflict.text

ConflictComparison(conflict) ==
    IF conflict.kind = "dict" THEN conflict.comparison ELSE <<>>

\* The inner loop of _find_dual_classifications: the index of the first
\* conflicting fact from j on that is about the same fact, or 0
RECURSIVE FirstSameConflict(_, _, _)
FirstSameConflict(match_text, conflicting_facts, j) ==
    IF j > Len(conflicting_facts) THEN 0
    ELSE IF \E text \in {ConflictOriginal(conflicting_facts[j]),
                         ConflictComparison(conflicting_facts[j])} :
                IsSameFact(match_text, text)
         THEN j
         ELSE FirstSameConflict(match_text, conflicting_facts, j + 1)

\* The pair appended for a matching fact: none when j = 0
DualPair(match_text, conflicting_facts, j) ==
    IF j = 0 THEN <<>>
    ELSE <<<<match_text,
             Or(ConflictComparison(conflicting_facts[j]),
                ConflictOriginal(conflicting_facts[j]))>>>>

DualFor(match_text, conflicting_facts) ==
    DualPair(match_text, conflicting_facts,
             FirstSameConflict(match_text, conflicting_facts, 1))

\* The outer loop of _find_dual_classifications from matching fact i on
RECURSIVE DualFrom(_, _, _)
DualFrom(matching_facts, conflicting_facts, i) ==
    IF i > Len(matching_facts) THEN <<>>
    ELSE DualFor(ExtractFactText(matching_facts[i]), conflicting_facts)
             \o DualFrom(matching_facts, conflicting_facts, i + 1)

\* _find_dual_classifications(matching_facts, conflicting_facts)
FindDualClassifications(matching_facts, conflicting_facts) ==
    DualFrom(matching_facts, conflicting_facts, 1)

\* a in b or b in a
EitherContains(a, b) == Contains(a, b) \/ Contains(b, a)

\* _facts_match(fact_item, original_text, comparison_text)
FactsMatch(fact_item, original_text, comparison_text) ==
    IF fact_item.kind = "dict"
    THEN /\ EitherContains(Or(fact_item.original, fact_item.original_fact), original_text)
         /\ EitherContains(Or(fact_item.comparison, fact_item.comparison_fact), comparison_text)
    ELSE \E text \in {original_text, comparison_text} : Contains(fact_item.text, text)

\* [x for x in facts if not self._facts_match(x, original_fact, comparison_fact)]
WithoutMatches(facts, original_fact, comparison_fact) ==
    SelectSeq(facts, LAMBDA x : ~FactsMatch(x, original_fact, comparison_fact))

\* The two lists after one dual-classified pair has been decided: a match
\* keeps the matching facts and filters the conflicting ones, anything else
\* keeps the conflicting facts and filters the matching ones
ListsAfter(lists, pair, pair_decision) ==
    [name \in {"matching_facts", "conflicting_facts"} |->
        IF (name = "conflicting_facts") <=> (pair_decision = "match")
        THEN WithoutMatches(lists[name], pair[1], pair[2])
        ELSE lists[name]]

\* The loop over the dual-classified pairs from pair k on
RECURSIVE ResolveDualsFrom(_, _, _)
ResolveDualsFrom(dual_classified, k, lists) ==
    IF k > Len(dual_classified) THEN lists
    ELSE ResolveDualsFrom(dual_classified, k + 1,
             ListsAfter(lists, dual_classified[k],
                        ResolveFactClassification(dual_classified[k][1],
                                                  dual_classified[k][2])))

\* analysis['matching_facts'] = ...; analysis['conflicting_facts'] = ...
WithLists(analysis, lists) ==
    [analysis EXCEPT !.matching_facts = lists.matching_facts,
                     !.conflicting_facts = lists.conflicting_facts]

\* The body of the loop of review_and_reconcile_analyses for one analysis
ReviewAnalysis(analysis) ==
    WithLists(analysis,
        ResolveDualsFrom(
            FindDualClassifications(analysis.matching_facts, analysis.conflicting_facts),
            1,
            [matching_facts |-> analysis.matching_facts,
             conflicting_facts |-> analysis.conflicting_facts]))

\* review_and_reconcile_analyses(analyses)
ReviewAndReconcileAnalyses(analyses) ==
    [i \in DOMAIN analyses |-> ReviewAnalysis(analyses[i])]

\* ------------------------------------------------------------------------
\* CuratorAgent: filtering the discovered sources
\* (src/app/agents/curator.py, filter_duplicate_sources)
\* ------------------------------------------------------------------------

\* A row of the articles table; content is whether the article has content
Article(url, source_type, content) ==
    [url |-> url, source_type |-> source_type, content |-> content]

\* A lookup that finds no row
NoArticleByUrl(url) == 0

\* Article.query.filter_by(url=url).first(): the id of the row found, 0 for
\* None.  The query has no ORDER BY; SQLite scans the table (or an index on
\* url) in rowid order, so the row with the lowest id is returned.
ArticleByUrl(url) ==
    LET ids == {i \in DOMAIN articles : articles[i].url = url}
    IN  IF ids = {} THEN 0 ELSE CHOOSE i \in ids : \A j \in ids : i <= j

\* The loop of filter_duplicate_sources from source i on
RECURSIVE FilterFrom(_, _, _, _, _)
FilterFrom(srcs, i, seen_urls, original_url, analyzed_ids) ==
    IF i > Len(srcs) THEN <<>>
    ELSE LET url == srcs[i].url
             existing_article == ArticleByUrl(url)
         IN  IF url = None \/ url = ""
             THEN FilterFrom(srcs, i + 1, seen_urls, original_url, analyzed_ids)
             ELSE IF url \in seen_urls
             THEN FilterFrom(srcs, i + 1, seen_urls, original_url, analyzed_ids)
             ELSE IF url = original_url
             THEN FilterFrom(srcs, i + 1, seen_urls, original_url, analyzed_ids)
             ELSE IF existing_article # 0 /\ existing_article \in Range(analyzed_ids)
             THEN FilterFrom(srcs, i + 1, seen_urls, original_url, analyzed_ids)
             ELSE <<srcs[i]>> \o FilterFrom(srcs, i + 1, seen_urls \cup {url},
                                            original_url, analyzed_ids)

\* The filter without its comparison with the original article's URL
FilterKeepingOriginal(srcs, original_url, analyzed_ids) ==
    FilterFrom(srcs, 1, {}, None, analyzed_ids)

\* filter_duplicate_sources(sources, original_article_url, analyzed_article_ids)
FilterDuplicateSources(srcs, original_url, analyzed_ids) ==
    FilterFrom(srcs, 1, {}, original_url, analyzed_ids)

\* ------------------------------------------------------------------------
\* Fact texts
\* ------------------------------------------------------------------------

\* "many people attended"
ManyPeopleAttended ==
    <<"m","a","n","y"," ","p","e","o","p","l","e"," ","a","t","t","e",
      "n","d","e","d">>

\* "45 people attended"
People45Attended ==
    <<"4","5"," ","p","e","o","p","l","e"," ","a","t","t","e","n","d",
      "e","d">>

\* "500 people attended"
People500Attended ==
    <<"5","0","0"," ","p","e","o","p","l","e"," ","a","t","t","e","n",
      "d","e","d">>

\* "15 people attended"
People15Attended ==
    <<"1","5"," ","p","e","o","p","l","e"," ","a","t","t","e","n","d",
      "e","d">>

\* "200 people attended"
People200Attended ==
    <<"2","0","0"," ","p","e","o","p","l","e"," ","a","t","t","e","n",
      "d","e","d">>

\* "some 45 people attended"
Some45PeopleAttended ==
    <<"s","o","m","e"," ","4","5"," ","p","e","o","p","l","e"," ","a",
      "t","t","e","n","d","e","d">>

\* "Several hundred attended"
SeveralHundredAttended ==
    <<"S","e","v","e","r","a","l"," ","h","u","n","d","r","e","d"," ",
      "a","t","t","e","n","d","e","d">>

\* "Fire killed 45 people"
FireKilled45 ==
    <<"F","i","r","e"," ","k","i","l","l","e","d"," ","4","5"," ","p",
      "e","o","p","l","e">>

\* "Fire killed 60 people"
FireKilled60 ==
    <<"F","i","r","e"," ","k","i","l","l","e","d"," ","6","0"," ","p",
      "e","o","p","l","e">>

\* "Fire killed 70 people"
FireKilled70 ==
    <<"F","i","r","e"," ","k","i","l","l","e","d"," ","7","0"," ","p",
      "e","o","p","l","e">>

\* "Fire killed 100 people"
FireKilled100 ==
    <<"F","i","r","e"," ","k","i","l","l","e","d"," ","1","0","0"," ",
      "p","e","o","p","l","e">>

\* "Fire killed 0 people"
FireKilled0 ==
    <<"F","i","r","e"," ","k","i","l","l","e","d"," ","0"," ","p","e",
      "o","p","l","e">>

\* "Fire killed 45 of 100 people"
Killed45Of100 ==
    <<"F","i","r","e"," ","k","i","l","l","e","d"," ","4","5"," ","o",
      "f"," ","1","0","0"," ","p","e","o","p","l","e">>

\* "Rain fell 4.9 inches"
RainFell4p9 ==
    <<"R","a","i","n"," ","f","e","l","l"," ","4",".","9"," ","i","n",
      "c","h","e","s">>

\* "Rain fell 7.0 inches"
RainFell7p0 ==
    <<"R","a","i","n"," ","f","e","l","l"," ","7",".","0"," ","i","n",
      "c","h","e","s">>

\* "Crowd of 1,000"
CrowdOf1000 ==
    <<"C","r","o","w","d"," ","o","f"," ","1",",","0","0","0">>

\* "Crowd of 1,200"
CrowdOf1200 ==
    <<"C","r","o","w","d"," ","o","f"," ","1",",","2","0","0">>

\* "Mayor resigned"
MayorResigned ==
    <<"M","a","y","o","r"," ","r","e","s","i","g","n","e","d">>

\* "Blaze killed 45 people"
BlazeKilled45 ==
    <<"B","l","a","z","e"," ","k","i","l","l","e","d"," ","4","5"," ",
      "p","e","o","p","l","e">>

FactTexts ==
    {ManyPeopleAttended,
     People45Attended,
     People500Attended,
     People15Attended,
     People200Attended,
     Some45PeopleAttended,
     SeveralHundredAttended,
     FireKilled45,
     FireKilled60,
     FireKilled70,
     FireKilled100,
     FireKilled0,
     Killed45Of100,
     RainFell4p9,
     RainFell7p0,
     CrowdOf1000,
     CrowdOf1200,
     MayorResigned}

\* ------------------------------------------------------------------------
\* Specification SpecResolve: the curator resolves dual-classified pairs
\* ------------------------------------------------------------------------

ReviewIdle ==
    /\ analyses_in = <<>>
    /\ reconciled_analyses = <<>>
    /\ reviewed = FALSE

FilterIdle ==
    /\ sources = <<>>
    /\ original_article_url = ""
    /\ analyzed_article_ids = <<>>
    /\ filtered = <<>>
    /\ filter_returned = FALSE

\* No request has arrived
WorkflowIdle ==
    /\ analysis_table = <<>>
    /\ reports = <<>>
    /\ clock = 1
    /\ requests = <<>>
    /\ comparator_call = <<>>

\* compare_and_score is not under study
ScoreIdle == score_in = <<>> /\ score_out = <<>>

QueryIdle == query_in = <<>> /\ query_out = <<>>

ByIdIdle == by_id = <<>>

MergeIdle == merge_call = <<>>

CalcIdle == calc_in = <<>> /\ calc_out = <<>>

StoreIdle == articles = <<>> /\ WorkflowIdle /\ ScoreIdle /\ QueryIdle /\ ByIdIdle /\ MergeIdle /\ CalcIdle

InitResolve ==
    /\ fact1 \in FactTexts
    /\ fact2 \in FactTexts
    /\ decision = None
    /\ ReviewIdle /\ FilterIdle /\ StoreIdle

\* decision = self._resolve_fact_classification(original_fact, comparison_fact)
Resolve ==
    /\ decision = None
    /\ decision' = ResolveFactClassification(fact1, fact2)
    /\ UNCHANGED <<fact1, fact2, reviewVars, articles, filterVars, workflowVars, scoreVars, queryVars, byIdVars, mergeVars, calcVars>>

\* The review loop moves on to the next dual-classified pair
NextPair ==
    /\ decision # None
    /\ fact1' \in FactTexts
    /\ fact2' \in FactTexts
    /\ decision' = None
    /\ UNCHANGED <<reviewVars, articles, filterVars, workflowVars, scoreVars, queryVars, byIdVars, mergeVars, calcVars>>

NextResolve == Resolve \/ NextPair

SpecResolve == InitResolve /\ [][NextResolve]_vars

\* ------------------------------------------------------------------------
\* Properties of SpecResolve
\* ------------------------------------------------------------------------

Many == <<"m","a","n","y">>

\* The first number of a text, exactly: num / 10^scale
FirstNumber(t) == Decimal(FindNumbers(t)[1])

\* lo <= num / 10^scale <= hi, exactly
Between(dec, lo, hi) ==
    lo * Pow(10, dec.scale) <= dec.num /\ dec.num <= hi * Pow(10, dec.scale)

\* The text with the keyword 'many' and no number, against a text with a number
ManyAgainstNumber(keyed, numbered) ==
    /\ Contains(Lower(keyed), Many)
    /\ FindNumbers(keyed) = <<>>
    /\ FindNumbers(numbered) # <<>>

\* C1: the ambiguous-expression law.  "many people attended" against
\* "45 people attended" resolves to 'match' and against "500 people attended"
\* to 'conflict'; in general, when one text contains the keyword 'many' and
\* no number and the other text contains a number n, the result is 'match'
\* iff 20 <= n <= 200.
C1_AmbiguousExpressionLaw ==
    decision # None =>
        /\ (fact1 = ManyPeopleAttended /\ fact2 = People45Attended
                => decision = "match")
        /\ (fact1 = ManyPeopleAttended /\ fact2 = People500Attended
                => decision = "conflict")
        /\ (ManyAgainstNumber(fact1, fact2)
                => (decision = "match" <=> Between(FirstNumber(fact2), 20, 200)))
        /\ (ManyAgainstNumber(fact2, fact1)
                => (decision = "match" <=> Between(FirstNumber(fact1), 20, 200)))

\* "many people attended" against "45 people attended" has been resolved
C1_ManyAgainst45Resolved ==
    decision # None /\ fact1 = ManyPeopleAttended /\ fact2 = People45Attended

\* The 30% rule on two exact decimals a and b, in integers: both are 0, or
\* |a - b| * 100 < 30 * max(|a|, |b|)
WithinThirtyPercent(a, b) ==
    LET n1 == a.num * Pow(10, b.scale)
        n2 == b.num * Pow(10, a.scale)
    IN  \/ n1 = 0 /\ n2 = 0
        \/ Abs(n1 - n2) * 100 < 30 * Max(Abs(n1), Abs(n2))

\* C9: the numeric tolerance law.  When both texts contain at least one
\* number the decision is taken from the first number of each side only:
\* 'match' iff both are 0 or |n1-n2|*100 < 30*max(|n1|,|n2|), otherwise
\* 'conflict' (exactly 30% is a conflict); later numbers and the
\* ambiguous-expression table never change the result.
C9_NumericToleranceLaw ==
    (decision # None /\ FindNumbers(fact1) # <<>> /\ FindNumbers(fact2) # <<>>)
        => decision = IF WithinThirtyPercent(FirstNumber(fact1), FirstNumber(fact2))
                      THEN "match" ELSE "conflict"

\* 4.9 against 7.0, a difference of exactly 30%, has been resolved
C9_ExactlyThirtyPercentResolved ==
    decision # None /\ fact1 = RainFell4p9 /\ fact2 = RainFell7p0

\* ------------------------------------------------------------------------
\* Specification SpecReview: the curator reviews a list of analyses
\* ------------------------------------------------------------------------

\* Matching and conflicting entries a comparator can return
MatchingFacts ==
    {MatchingFact(FireKilled45, BlazeKilled45),
     MatchingFact(FireKilled45, FireKilled60),
     MatchingFact(FireKilled45, FireKilled100),
     MatchingFact(MayorResigned, MayorResigned),
     Str(FireKilled45)}

ConflictingFacts ==
    {ConflictingFact(FireKilled45, FireKilled100),
     ConflictingFact(FireKilled45, FireKilled60),
     ConflictingFact(MayorResigned, ManyPeopleAttended),
     Str(FireKilled100)}

MaxFacts == 2

MaxAnalyses == 2

SeqsUpTo(S, n) == UNION {[1..k -> S] : k \in 0..n}

\* The analyses a request can collect: any lists of entries for the first,
\* and a dual-classified or a consistent one for a second
ReviewInputs ==
    LET any == {[matching_facts |-> m, conflicting_facts |-> c] :
                    m \in SeqsUpTo(MatchingFacts, MaxFacts),
                    c \in SeqsUpTo(ConflictingFacts, MaxFacts)}
        second == {[matching_facts |-> <<MatchingFact(FireKilled45, BlazeKilled45)>>,
                    conflicting_facts |-> <<ConflictingFact(FireKilled45, FireKilled100)>>],
                   [matching_facts |-> <<MatchingFact(MayorResigned, MayorResigned)>>,
                    conflicting_facts |-> <<>>]}
    IN  {<<>>} \cup {<<a>> : a \in any}
               \cup (IF MaxAnalyses >= 2 THEN {<<a, b>> : a \in any, b \in second} ELSE {})

ResolveIdle ==
    /\ fact1 = <<>>
    /\ fact2 = <<>>
    /\ decision = None

InitReview ==
    /\ analyses_in \in ReviewInputs
    /\ reconciled_analyses = <<>>
    /\ reviewed = FALSE
    /\ ResolveIdle /\ FilterIdle /\ StoreIdle

\* analyses = curator.review_and_reconcile_analyses(analyses)
Review ==
    /\ ~reviewed
    /\ reconciled_analyses' = ReviewAndReconcileAnalyses(analyses_in)
    /\ reviewed' = TRUE
    /\ UNCHANGED <<analyses_in, resolveVars, articles, filterVars, workflowVars, scoreVars, queryVars, byIdVars, mergeVars, calcVars>>

\* The reconciled analyses are reviewed again (the curator is re-run on them)
ReviewAgain ==
    /\ reviewed
    /\ analyses_in' = reconciled_analyses
    /\ reconciled_analyses' = <<>>
    /\ reviewed' = FALSE
    /\ UNCHANGED <<resolveVars, articles, filterVars, workflowVars, scoreVars, queryVars, byIdVars, mergeVars, calcVars>>

NextReview == Review \/ ReviewAgain

SpecReview == InitReview /\ [][NextReview]_vars

\* ------------------------------------------------------------------------
\* Properties of SpecReview
\* ------------------------------------------------------------------------

\* No matching fact of the analysis is about the same fact as the original
\* or the comparison text of one of its conflicting facts
MutuallyExclusive(analysis) ==
    \A i \in DOMAIN analysis.matching_facts, j \in DOMAIN analysis.conflicting_facts :
        \A text \in {ConflictOriginal(analysis.conflicting_facts[j]),
                     ConflictComparison(analysis.conflicting_facts[j])} :
            ~IsSameFact(ExtractFactText(analysis.matching_facts[i]), text)

\* C2: mutual exclusivity.  After review_and_reconcile_analyses no returned
\* analysis contains a matching fact whose text passes the same-fact overlap
\* test against the original or comparison text of a conflicting fact still
\* present in that same analysis.
C2_MutualExclusivity ==
    reviewed => \A i \in DOMAIN reconciled_analyses :
                    MutuallyExclusive(reconciled_analyses[i])

\* A dual-classified analysis has been reviewed
C2_DualClassifiedReviewed ==
    /\ reviewed
    /\ \E i \in DOMAIN analyses_in : ~MutuallyExclusive(analyses_in[i])

\* ------------------------------------------------------------------------
\* Specification SpecFilter: the curator filters a batch of sources
\* ------------------------------------------------------------------------

OriginalUrl == "https://news.example/fire"

SourceUrlA == "https://a.example/fire"

SourceUrlB == "https://b.example/fire"

SourceUrls == {SourceUrlA, SourceUrlB}

SourceUrlC == "https://c.example/fire"

SourceUrlD == "https://d.example/fire"

\* The urls a search can find
FoundUrls == SourceUrls \cup {SourceUrlC, SourceUrlD}

\* The entries a search can return: results for the two sources (two
\* different results for the first), the original article itself, and
\* results with an empty or a missing url
SourceEntries ==
    {[url |-> SourceUrlA, title |-> "Fire: A"],
     [url |-> SourceUrlA, title |-> "Fire: A, updated"],
     [url |-> SourceUrlB, title |-> "Fire: B"],
     [url |-> OriginalUrl, title |-> "Fire"],
     [url |-> "", title |-> "untitled"],
     [url |-> None, title |-> "untitled"]}

MaxSources == 4



\* Stores: the original article, perhaps stored a second time by a second
\* request, and comparison articles for some of the sources
FilterStores ==
    {<<Article(OriginalUrl, "original", TRUE)>> \o again \o compared :
        again \in {<<>>, <<Article(OriginalUrl, "original", TRUE)>>},
        compared \in {<<>>,
                      <<Article(SourceUrlA, "news_general", TRUE)>>,
                      <<Article(SourceUrlB, "news_general", TRUE)>>,
                      <<Article(SourceUrlA, "news_general", TRUE), Article(SourceUrlB, "news_general", TRUE)>>,
                      <<Article(SourceUrlB, "news_general", TRUE), Article(SourceUrlA, "news_general", TRUE)>>}}

\* The ids lists of get_analyzed_article_ids over a store: the comparison
\* articles of some analyses, then the original article of the request,
\* which is the article the request has stored (the second, after a second
\* request for the same URL)
AnalyzedIdsOver(store) ==
    {compared \o <<original>> :
        compared \in {c \in SeqsUpTo(DOMAIN store, Len(store)) :
                        /\ \A i \in DOMAIN c : store[c[i]].source_type # "original"
                        /\ \A i, j \in DOMAIN c : i < j => c[i] < c[j]},
        original \in {i \in DOMAIN store : store[i].source_type = "original"}}

InitFilter ==
    /\ articles \in FilterStores
    /\ sources \in SeqsUpTo(SourceEntries, MaxSources)
    /\ original_article_url = OriginalUrl
    /\ analyzed_article_ids \in AnalyzedIdsOver(articles)
    /\ filtered = <<>>
    /\ filter_returned = FALSE
    /\ ResolveIdle /\ ReviewIdle /\ WorkflowIdle /\ ScoreIdle /\ QueryIdle /\ ByIdIdle /\ MergeIdle /\ CalcIdle

\* sources = curator.filter_duplicate_sources(sources, original_article.url, analyzed_ids)
Filter ==
    /\ ~filter_returned
    /\ filtered' = FilterDuplicateSources(sources, original_article_url, analyzed_article_ids)
    /\ filter_returned' = TRUE
    /\ UNCHANGED <<sources, original_article_url, analyzed_article_ids, articles>>
    /\ UNCHANGED <<resolveVars, reviewVars, workflowVars, scoreVars, queryVars, byIdVars, mergeVars, calcVars>>

NextFilter == Filter

SpecFilter == InitFilter /\ [][NextFilter]_vars

\* ------------------------------------------------------------------------
\* Properties of SpecFilter
\* ------------------------------------------------------------------------

HasUrl(source) == source.url # None /\ source.url # ""

\* The URL resolves to a stored Article whose id is among the analyzed ids:
\* the first row stored with that URL is an analyzed one
ResolvesToAnalyzed(url) ==
    \E i \in Range(analyzed_article_ids) :
        /\ i \in DOMAIN articles
        /\ articles[i].url = url
        /\ \A j \in 1..(i - 1) : articles[j].url # url

\* The positions of the input that none of the four reasons drops: the entry
\* has a URL, no earlier entry has the same URL, the URL is not the original
\* article's and does not resolve to an analyzed Article
Kept ==
    {i \in DOMAIN sources :
        /\ HasUrl(sources[i])
        /\ \A j \in 1..(i - 1) : sources[j].url # sources[i].url
        /\ sources[i].url # original_article_url
        /\ ~ResolvesToAnalyzed(sources[i].url)}

\* s is the subsequence of t at the strictly increasing positions pos
IsSubsequenceAt(s, t, pos) ==
    /\ DOMAIN pos = DOMAIN s
    /\ \A i \in DOMAIN s : pos[i] \in DOMAIN t /\ s[i] = t[pos[i]]
    /\ \A i, j \in DOMAIN s : i < j => pos[i] < pos[j]

\* What the list returned must satisfy
FilterContract ==
    /\ \E pos \in SeqsUpTo(DOMAIN sources, Len(sources)) :
           /\ IsSubsequenceAt(filtered, sources, pos)
           /\ Range(pos) = Kept
    /\ \A i \in DOMAIN filtered :
           /\ HasUrl(filtered[i])
           /\ filtered[i].url # original_article_url
           /\ ~ResolvesToAnalyzed(filtered[i].url)
    /\ \A i, j \in DOMAIN filtered : i # j => filtered[i].url # filtered[j].url

\* C8: for every input, filter_duplicate_sources returns an order-preserving
\* subsequence of its input in which every entry has a URL, all URLs are
\* pairwise distinct, none equals the original URL and none resolves to a
\* stored Article whose id is among the analyzed ids; an entry is dropped
\* only for one of these four reasons; and the call leaves the store as it is.
C8_FilterContract ==
    [][Filter => (FilterContract' /\ articles' = articles)]_vars

\* A batch with a duplicate, the original, a source without URL and an
\* analyzed source has been filtered, and something was kept
C8_MixedBatchFiltered ==
    /\ filter_returned
    /\ Len(sources) = MaxSources
    /\ \E i, j \in DOMAIN sources : i < j /\ HasUrl(sources[i]) /\ sources[i].url = sources[j].url
    /\ \E i \in DOMAIN sources : ~HasUrl(sources[i])
    /\ \E i \in DOMAIN sources : HasUrl(sources[i]) /\ ResolvesToAnalyzed(sources[i].url)
    /\ filtered # <<>>

\* The batch [{url: A}, {url: A}, {url: original}, {url: B}] with B resolving
\* to an analyzed Article
PrecedenceExample ==
    /\ Len(sources) = 4
    /\ sources[1].url = SourceUrlA
    /\ sources[2].url = SourceUrlA
    /\ sources[3].url = OriginalUrl
    /\ sources[4].url = SourceUrlB
    /\ original_article_url = OriginalUrl
    /\ ResolvesToAnalyzed(SourceUrlB)

\* C7 as stated: filter_duplicate_sources called with sources=[{url:A},
\* {url:A},{url:original},{url:B}], originalUrl=original and B resolving to an
\* already-analyzed Article returns the empty list.
C7_PrecedenceExampleEmpty ==
    (filter_returned /\ PrecedenceExample) => filtered = <<>>

\* C7, amended: on that input the filter returns the first entry for A alone;
\* it returns the empty list only when A, too, resolves to an analyzed Article.
C7_PrecedenceExampleKeepsFirst ==
    (filter_returned /\ PrecedenceExample)
        => filtered = IF ResolvesToAnalyzed(SourceUrlA) THEN <<>> ELSE <<sources[1]>>

\* The example batch has been filtered in a store where A is not analyzed
C7_PrecedenceExampleFiltered ==
    filter_returned /\ PrecedenceExample /\ ~ResolvesToAnalyzed(SourceUrlA)

\* ------------------------------------------------------------------------
\* Config (src/config.py) and ScorerAgent (src/app/agents/scorer.py)
\* ------------------------------------------------------------------------

MAX_SOURCES_TO_CHECK == 10

\* A float literal of the source, num / 10^scale
Literal(num, scale) == FFromDecimal([num |-> num, scale |-> scale])

SOURCE_WEIGHTS ==
    [official |-> Literal(10, 1), news_major |-> Literal(8, 1),
     news_general |-> Literal(6, 1), blog |-> Literal(4, 1), social |-> Literal(3, 1)]

CONFIDENCE_THRESHOLDS ==
    [high |-> [min_sources |-> 5, min_agreement |-> Literal(8, 1)],
     medium |-> [min_sources |-> 3, min_agreement |-> Literal(6, 1)],
     low |-> [min_sources |-> 0, min_agreement |-> Literal(0, 1)]]

\* min(a, b)
FMin(a, b) == IF FLess(b, a) THEN b ELSE a

\* The weight a matching fact adds to confidence_weight: a plain string
\* adds nothing, a dict without 'confidence' counts as 'medium'
ConfidenceOf(fact) ==
    IF fact.kind # "dict" THEN FZero
    ELSE IF fact.confidence = "high" THEN Literal(10, 1)
    ELSE IF fact.confidence \in {"medium", None} THEN Literal(7, 1)
    ELSE Literal(5, 1)

\* The loop over matching_facts that sums confidence_weight
RECURSIVE ConfidenceWeightFrom(_, _, _)
ConfidenceWeightFrom(matching_facts, i, confidence_weight) ==
    IF i > Len(matching_facts) THEN confidence_weight
    ELSE ConfidenceWeightFrom(matching_facts, i + 1,
                              FAdd(confidence_weight, ConfidenceOf(matching_facts[i])))

\* agreement_percentage *= avg_confidence, for num_matching > 0
WeightedAgreement(agreement_percentage, confidence_weight, num_matching) ==
    IF num_matching > 0
    THEN FMul(agreement_percentage, FDiv(confidence_weight, FFromInt(num_matching)))
    ELSE agreement_percentage

\* _calculate_comparison_score(comparison_result, source_type, relevance_score)
CalculateComparisonScore(comparison_result) ==
    IF Len(comparison_result.matching) + Len(comparison_result.conflicting) = 0
    THEN Literal(500, 1)
    ELSE FMin(Literal(1000, 1),
              WeightedAgreement(
                  FMul(FDiv(FFromInt(Len(comparison_result.matching)),
                            FFromInt(Len(comparison_result.matching)
                                     + Len(comparison_result.conflicting))),
                       FFromInt(100)),
                  ConfidenceWeightFrom(comparison_result.matching, 1, FZero),
                  Len(comparison_result.matching)))

\* relevance_score <= 0.4
RelevantOnlyAbove(relevance_score) == ~FLess(Literal(4, 1), relevance_score)

\* relevance_score < 0.4
BelowRelevance(relevance_score) == FLess(relevance_score, Literal(4, 1))

\* comparison_result.get('relevance_score', 0.5)
RelevanceScore(comparison_result) ==
    IF "relevance_score" \in comparison_result.keys
    THEN comparison_result.relevance_score ELSE Literal(5, 1)

\* The analysis dict compare_and_score builds
AnalysisDict(comparison_result, comparison_article_id, source_type, relevance_score) ==
    [comparison_article_id |-> comparison_article_id,
     accuracy_score |-> CalculateComparisonScore(comparison_result),
     matching_facts |-> comparison_result.matching,
     conflicting_facts |-> comparison_result.conflicting,
     analysis_details |-> [relevance_score |-> relevance_score,
                           source_type |-> source_type]]

\* compare_and_score after the comparison: <<>> for None, <<analysis>> for
\* an analysis
ScoreWith(comparison_result, comparison_article_id, source_type, relevance_score) ==
    IF BelowRelevance(relevance_score) THEN <<>>
    ELSE <<AnalysisDict(comparison_result, comparison_article_id, source_type,
                        relevance_score)>>

\* compare_and_score, given the result of gemini.compare_facts
CompareAndScore(comparison_result, comparison_article_id, source_type) ==
    ScoreWith(comparison_result, comparison_article_id, source_type,
              RelevanceScore(comparison_result))

\* Config.SOURCE_WEIGHTS.get(source_type, 0.5)
WeightOf(source_type) ==
    IF source_type \in DOMAIN SOURCE_WEIGHTS THEN SOURCE_WEIGHTS[source_type]
    ELSE Literal(5, 1)

\* The loop of _calculate_overall_score: [weighted_sum, total_weight]
RECURSIVE WeightedSumFrom(_, _, _, _)
WeightedSumFrom(analyses, i, weighted_sum, total_weight) ==
    IF i > Len(analyses)
    THEN [weighted_sum |-> weighted_sum, total_weight |-> total_weight]
    ELSE WeightedSumFrom(analyses, i + 1,
             FAdd(weighted_sum,
                  FMul(analyses[i].accuracy_score,
                       WeightOf(analyses[i].analysis_details.source_type))),
             FAdd(total_weight, WeightOf(analyses[i].analysis_details.source_type)))

\* The integer nearest to q + r / d, ties to even
RoundHalfEven(qr, d) ==
    IF RoundsUp(BigCmp(BigMulSmall(qr.r, 2), d), qr.q)
    THEN BigAdd(qr.q, BigOne) ELSE qr.q

\* The integer nearest to n / 2^k, ties to even
RoundedShr(n, k) == RoundHalfEven(BigDivMod(n, BigShl(BigOne, k)), BigShl(BigOne, k))

\* The integer nearest to 100 * x, ties to even
Hundredths(x) ==
    IF x.e >= 0 THEN BigShl(BigMulSmall(x.m, 100), x.e)
    ELSE RoundedShr(BigMulSmall(x.m, 100), 0 - x.e)

\* round(x, 2): the float nearest to the decimal numeral with two places
\* that is nearest to x
Round2(x) == IF FIsZero(x) THEN FZero ELSE RoundQ(Hundredths(x), BigFromInt(100), 0)

\* The weighted sum, not divided by the total weight
UndividedSum(sums) == sums.weighted_sum

\* The end of _calculate_overall_score
OverallOf(sums) ==
    IF FIsZero(sums.total_weight) THEN FZero
    ELSE Round2(FDiv(sums.weighted_sum, sums.total_weight))

\* _calculate_overall_score(analyses)
CalculateOverallScore(analyses) ==
    IF analyses = <<>> THEN FZero
    ELSE OverallOf(WeightedSumFrom(analyses, 1, FZero, FZero))

\* sum(a.get('accuracy_score', 0) for a in analyses)
RECURSIVE SumScoresFrom(_, _, _)
SumScoresFrom(analyses, i, total) ==
    IF i > Len(analyses) THEN total
    ELSE SumScoresFrom(analyses, i + 1, FAdd(total, analyses[i].accuracy_score))

\* agreement_ratio
AgreementRatio(analyses) ==
    IF analyses # <<>>
    THEN FDiv(FDiv(SumScoresFrom(analyses, 1, FZero), FFromInt(Len(analyses))),
              Literal(1000, 1))
    ELSE FZero

\* The loop over the levels of _determine_confidence_level
RECURSIVE LevelFrom(_, _, _, _)
LevelFrom(levels, i, num_sources, agreement_ratio) ==
    IF i > Len(levels) THEN "low"
    ELSE IF /\ num_sources >= CONFIDENCE_THRESHOLDS[levels[i]].min_sources
            /\ ~FLess(agreement_ratio, CONFIDENCE_THRESHOLDS[levels[i]].min_agreement)
         THEN levels[i]
         ELSE LevelFrom(levels, i + 1, num_sources, agreement_ratio)

\* _determine_confidence_level(analyses)
DetermineConfidenceLevel(analyses) ==
    LevelFrom(<<"high", "medium", "low">>, 1, Len(analyses), AgreementRatio(analyses))

\* ------------------------------------------------------------------------
\* GeminiService.compare_facts (src/app/services/gemini_service.py)
\* ------------------------------------------------------------------------

\* What a call of the comparator can end in: a JSON reply (keys, the numeral
\* of its relevance_score, its two lists), a reply that is no JSON, or an
\* error of the call
JsonReply(keys, relevance_score, matching, conflicting) ==
    [kind |-> "json", keys |-> keys, relevance_score |-> relevance_score,
     matching |-> matching, conflicting |-> conflicting]

MalformedReply ==
    [kind |-> "malformed", keys |-> {}, relevance_score |-> [num |-> 0, scale |-> 0],
     matching |-> <<>>, conflicting |-> <<>>]

FailedCall ==
    [kind |-> "error", keys |-> {}, relevance_score |-> [num |-> 0, scale |-> 0],
     matching |-> <<>>, conflicting |-> <<>>]

\* comparison.get(key), [] when the reply lacks the key
ListOf(reply, key) == IF key \in reply.keys THEN reply[key] ELSE <<>>

\* _parse_fact_comparison_response(response.text): json.loads reads the
\* numeral of relevance_score as a float; the lists are completed, and a
\* missing relevance_score becomes 0.5; a reply that is no JSON gives empty
\* lists and the relevance_score 0.0
ParseFactComparisonResponse(reply) ==
    IF reply.kind = "json"
    THEN [keys |-> reply.keys \cup {"matching", "conflicting", "relevance_score"},
          matching |-> ListOf(reply, "matching"),
          conflicting |-> ListOf(reply, "conflicting"),
          relevance_score |-> IF "relevance_score" \in reply.keys
                              THEN FFromDecimal(reply.relevance_score)
                              ELSE Literal(5, 1)]
    ELSE [keys |-> {"matching", "conflicting", "relevance_score", "parse_error"},
          matching |-> <<>>, conflicting |-> <<>>, relevance_score |-> FZero]

\* compare_facts(original_facts, comparison_facts): the parsed reply, or the
\* fallback dict, which has no relevance_score, when the call raises
CompareFacts(reply) ==
    IF reply.kind = "error"
    THEN [keys |-> {"matching", "conflicting", "error"},
          matching |-> <<>>, conflicting |-> <<>>, relevance_score |-> FZero]
    ELSE ParseFactComparisonResponse(reply)

\* An entry of what_facts, {"event": ...}, and an entry of claims,
\* {"claim": ...}, as the extraction prompt asks for them
WhatFact(event) == [kind |-> "dict", event |-> event]

ClaimFact(claim) == [kind |-> "dict", claim |-> claim]

\* The same dicts with the "importance" the extraction prompt asks for
RatedWhatFact(event, importance) ==
    [kind |-> "dict", event |-> event, importance |-> importance]

RatedClaim(claim, importance) ==
    [kind |-> "dict", claim |-> claim, importance |-> importance]

\* What a call of the extractor can end in: a JSON reply (its keys and its
\* two lists), a reply that is no JSON, or an error of the call
FactsReply(keys, what_facts, claims) ==
    [kind |-> "json", keys |-> keys, what_facts |-> what_facts, claims |-> claims]

MalformedFacts == [kind |-> "malformed", keys |-> {}, what_facts |-> <<>>, claims |-> <<>>]

FailedExtraction == [kind |-> "error", keys |-> {}, what_facts |-> <<>>, claims |-> <<>>]

\* _parse_fact_extraction_response(response.text): the lists are completed;
\* a reply that is no JSON gives empty lists and a 'parse_error'
ParseFactExtractionResponse(reply) ==
    IF reply.kind = "json"
    THEN [keys |-> reply.keys \cup {"what_facts", "claims"},
          what_facts |-> ListOf(reply, "what_facts"),
          claims |-> ListOf(reply, "claims")]
    ELSE [keys |-> {"what_facts", "claims", "parse_error"},
          what_facts |-> <<>>, claims |-> <<>>]

\* extract_facts(article_text, article_title): the parsed reply, or the
\* fallback dict with an 'error' when the call raises
ExtractFacts(reply) ==
    IF reply.kind = "error"
    THEN [keys |-> {"what_facts", "claims", "error"}, what_facts |-> <<>>, claims |-> <<>>]
    ELSE ParseFactExtractionResponse(reply)

\* An entry of what_facts or claims that is a plain string
PlainFact(text) == [kind |-> "str", text |-> text]

\* What a call of the query generator can end in: a JSON reply (its keys,
\* its primary_query and alternative_queries), a reply that is no JSON, or
\* an error of the call
QueryReply(keys, primary_query, alternative_queries) ==
    [kind |-> "json", keys |-> keys, primary_query |-> primary_query,
     alternative_queries |-> alternative_queries]

MalformedQuery ==
    [kind |-> "malformed", keys |-> {}, primary_query |-> <<>>, alternative_queries |-> <<>>]

FailedQuery ==
    [kind |-> "error", keys |-> {}, primary_query |-> <<>>, alternative_queries |-> <<>>]

\* _parse_query_optimization_response(response.text): a missing
\* primary_query becomes '', as does the one of a reply that is no JSON
ParseQueryOptimizationResponse(reply) ==
    IF reply.kind = "json"
    THEN [keys |-> reply.keys \cup {"primary_query", "alternative_queries", "keywords"},
          primary_query |-> IF "primary_query" \in reply.keys
                            THEN reply.primary_query ELSE <<>>,
          alternative_queries |-> ListOf(reply, "alternative_queries")]
    ELSE [keys |-> {"primary_query", "alternative_queries", "keywords", "parse_error"},
          primary_query |-> <<>>, alternative_queries |-> <<>>]

\* text.split('.')[0]
RECURSIVE FirstSentence(_)
FirstSentence(text) ==
    IF text = <<>> \/ Head(text) = "." THEN <<>>
    ELSE <<Head(text)>> \o FirstSentence(Tail(text))

\* ' '.join(parts)
RECURSIVE Join(_)
Join(parts) ==
    IF parts = <<>> THEN <<>>
    ELSE IF Len(parts) = 1 THEN parts[1]
    ELSE parts[1] \o <<" ">> \o Join(Tail(parts))

\* The loops of _create_fallback_query: the first sentences of the texts
\* under key of the dicts among facts that have one
RECURSIVE QueryPartsFrom(_, _, _)
QueryPartsFrom(facts, key, i) ==
    IF i > Len(facts) THEN <<>>
    ELSE IF facts[i].kind = "dict" /\ facts[i][key] # <<>>
         THEN <<FirstSentence(facts[i][key])>> \o QueryPartsFrom(facts, key, i + 1)
         ELSE QueryPartsFrom(facts, key, i + 1)

\* "news"
News == <<"n", "e", "w", "s">>

\* ' '.join(query_parts[:2]) if query_parts else "news"
PrimaryQueryOf(query_parts) ==
    IF query_parts # <<>> THEN Join(Prefix(query_parts, 2))
    ELSE News

\* _create_fallback_query(facts)
CreateFallbackQuery(facts) ==
    [keys |-> {"primary_query", "alternative_queries", "keywords"},
     primary_query |->
         PrimaryQueryOf(
             QueryPartsFrom(Prefix(facts.what_facts, 2), "event", 1)
             \o QueryPartsFrom(Prefix(facts.claims, 1), "claim", 1)),
     alternative_queries |-> <<>>]

\* gemini.optimize_search_query(facts, attempt): the parsed reply, or the
\* fallback query when the call raises
OptimizeSearchQuery(facts, attempt, reply) ==
    IF reply.kind = "error" THEN CreateFallbackQuery(facts)
    ELSE ParseQueryOptimizationResponse(reply)

\* curator.optimize_search_queries(facts, attempt)
OptimizeSearchQueries(facts, attempt, reply) == OptimizeSearchQuery(facts, attempt, reply)

\* ------------------------------------------------------------------------
\* Specification SpecScore: compare_and_score applied to one reply of the
\* comparator
\* ------------------------------------------------------------------------

MaxHundredths == 100

\* The numerals a reply can carry as relevance_score: 0.00 .. 1.00, and 0.4
RelevanceNumerals ==
    {[num |-> k, scale |-> 2] : k \in 0..MaxHundredths} \cup {[num |-> 4, scale |-> 1]}

ReplyKeys == {"matching", "conflicting", "relevance_score"}

\* The fact lists of the replies: none, one match of high confidence, one
\* pair listed as matching and as conflicting
ReplyLists ==
    {[matching |-> <<>>, conflicting |-> <<>>],
     [matching |-> <<WithConfidence(MatchingFact(MayorResigned, MayorResigned), "high")>>,
      conflicting |-> <<>>],
     [matching |-> <<MatchingFact(FireKilled45, FireKilled60)>>,
      conflicting |-> <<ConflictingFact(FireKilled45, FireKilled60)>>]}

\* A reply with fact lists but no relevance_score
UnratedReply ==
    JsonReply({"matching", "conflicting"}, [num |-> 0, scale |-> 0],
              <<MatchingFact(MayorResigned, MayorResigned)>>, <<>>)

ScoreReplies ==
    {JsonReply(ReplyKeys, n, l.matching, l.conflicting) :
         n \in RelevanceNumerals, l \in ReplyLists}
    \cup {UnratedReply, MalformedReply, FailedCall}

SourceTypes == {"news_major", "blog"}

InitScore ==
    /\ score_in \in [reply : ScoreReplies, comparison_article_id : {2},
                     source_type : SourceTypes]
    /\ score_out = <<>>
    /\ ResolveIdle /\ ReviewIdle /\ FilterIdle /\ articles = <<>> /\ WorkflowIdle
    /\ QueryIdle /\ ByIdIdle /\ MergeIdle /\ CalcIdle

\* analysis = scorer.compare_and_score(original_facts, source_article,
\* source_facts): score_out holds what the call returned
Score ==
    /\ score_out = <<>>
    /\ score_out' = <<CompareAndScore(CompareFacts(score_in.reply),
                                      score_in.comparison_article_id,
                                      score_in.source_type)>>
    /\ UNCHANGED <<score_in, resolveVars, reviewVars, articles, filterVars, workflowVars,
                   queryVars, byIdVars, mergeVars, calcVars>>

NextScore == Score

SpecScore == InitScore /\ [][NextScore]_vars

\* ------------------------------------------------------------------------
\* The store: the tables articles, analyses and reports
\* (src/app/models.py); the id of a row is its index in the table
\* ------------------------------------------------------------------------

\* .first() of a query without ORDER BY: the lowest id, 0 for None
FirstOf(ids) == IF ids = {} THEN 0 ELSE CHOOSE i \in ids : \A j \in ids : i <= j

\* Article.query.filter_by(url=url, source_type='original').first()
OriginalByUrl(url) ==
    FirstOf({i \in DOMAIN articles :
                 articles[i].url = url /\ articles[i].source_type = "original"})

\* Report.query.filter_by(original_article_id=id)
\*       .order_by(Report.last_updated.desc()).first(), 0 for None
LatestReport(original_article_id) ==
    LET ids == {k \in DOMAIN reports : reports[k].original_article_id = original_article_id}
    IN  IF ids = {} THEN 0
        ELSE CHOOSE k \in ids :
                 \A j \in ids : reports[j].last_updated <= reports[k].last_updated

\* Report.query.filter_by(original_article_id=id).first()
FirstReport(original_article_id) ==
    FirstOf({k \in DOMAIN reports : reports[k].original_article_id = original_article_id})

\* Analysis.query.filter_by(comparison_article_id=id).first()
FirstAnalysisComparing(comparison_article_id) ==
    FirstOf({k \in DOMAIN analysis_table :
                 analysis_table[k].comparison_article_id = comparison_article_id})

\* Analysis.query.filter_by(original_article_id=..., comparison_article_id=...)
\*         .first()
FirstAnalysisOf(original_article_id, comparison_article_id) ==
    FirstOf({k \in DOMAIN analysis_table :
                 /\ analysis_table[k].original_article_id = original_article_id
                 /\ analysis_table[k].comparison_article_id = comparison_article_id})

\* The dict routes.py and merge_reports build from an Analysis row
AsDict(a) ==
    [comparison_article_id |-> a.comparison_article_id,
     accuracy_score |-> a.accuracy_score,
     matching_facts |-> a.matching_facts,
     conflicting_facts |-> a.conflicting_facts,
     analysis_details |-> a.analysis_details]

\* Analysis.query.filter_by(original_article_id=id).all(), as dicts
AnalysesOf(original_article_id) ==
    LET rows == SelectSeq(analysis_table,
                          LAMBDA a : a.original_article_id = original_article_id)
    IN  [i \in DOMAIN rows |-> AsDict(rows[i])]

\* The Analysis row routes.py saves for an analysis dict
AnalysisRow(original_article_id, analysis) ==
    [original_article_id |-> original_article_id,
     comparison_article_id |-> analysis.comparison_article_id,
     accuracy_score |-> analysis.accuracy_score,
     matching_facts |-> analysis.matching_facts,
     conflicting_facts |-> analysis.conflicting_facts,
     analysis_details |-> analysis.analysis_details]

ComparisonIds(analyses) == [i \in DOMAIN analyses |-> analyses[i].comparison_article_id]

\* ------------------------------------------------------------------------
\* CuratorAgent and ScorerAgent on the store
\* ------------------------------------------------------------------------

\* self.max_attempts and self.min_sources_threshold of the curator
max_attempts == 3

min_sources_threshold == 3

\* check_existing_analysis(article_url), 0 for None
CheckExistingAnalysis(article_url) ==
    IF OriginalByUrl(article_url) # 0 THEN LatestReport(OriginalByUrl(article_url)) ELSE 0

\* get_analyzed_article_ids(original_article_id)
GetAnalyzedArticleIds(original_article_id) ==
    ComparisonIds(AnalysesOf(original_article_id)) \o <<original_article_id>>

\* A curator that never asks for another attempt
NeverRetry(report, attempt) == FALSE

\* should_retry_analysis(report, attempt)
ShouldRetryAnalysis(report, attempt) ==
    IF attempt >= max_attempts THEN FALSE
    ELSE report.sources_checked < min_sources_threshold

\* A row of the reports table; of detailed_results the ids of the
\* individual analyses are kept
Report(original_article_id, overall_score, confidence_level, analyses, now) ==
    [original_article_id |-> original_article_id,
     overall_score |-> overall_score,
     confidence_level |-> confidence_level,
     sources_checked |-> Len(analyses),
     individual_analyses |-> ComparisonIds(analyses),
     is_merged |-> FALSE,
     merge_count |-> 0,
     analysis_attempts |-> 1,
     last_updated |-> now]

\* A report of the neutral score 50.0
NeutralReport(original_article_id, now) ==
    Report(original_article_id, Literal(500, 1), "low", <<>>, now)

\* _create_no_sources_report(original_article_id): the Report added
CreateNoSourcesReport(original_article_id, now) ==
    Report(original_article_id, FZero, "low", <<>>, now)

\* generate_final_report(original_article_id, analyses): the Report added
GenerateFinalReport(original_article_id, analyses, now) ==
    IF analyses = <<>>
    THEN CreateNoSourcesReport(original_article_id, now)
    ELSE Report(original_article_id, CalculateOverallScore(analyses),
                DetermineConfidenceLevel(analyses), analyses, now)

\* The fields merge_reports updates, from all_analyses
Merged(existing_report, all_analyses, now) ==
    [existing_report EXCEPT
        !.overall_score = CalculateOverallScore(all_analyses),
        !.confidence_level = DetermineConfidenceLevel(all_analyses),
        !.sources_checked = Len(all_analyses),
        !.individual_analyses = ComparisonIds(all_analyses),
        !.is_merged = TRUE,
        !.merge_count = @ + 1,
        !.last_updated = now]

\* A merge_reports that does not return early for an empty list
MergeAlways(existing_report, new_analyses, now) ==
    [reports EXCEPT ![existing_report] =
        Merged(@, AnalysesOf(@.original_article_id) \o new_analyses, now)]

\* merge_reports(existing_report, new_analyses): the reports table after it
MergeReports(existing_report, new_analyses, now) ==
    IF new_analyses = <<>> THEN reports
    ELSE [reports EXCEPT ![existing_report] =
             Merged(@, AnalysesOf(@.original_article_id) \o new_analyses, now)]

\* ------------------------------------------------------------------------
\* Specification SpecQuery: optimize_search_queries applied to the facts of
\* an article and one reply of the query generator
\* ------------------------------------------------------------------------

\* "...Mayor resigned", a text that opens with an ellipsis
EllipsisMayorResigned == <<".", ".", ".">> \o MayorResigned

\* "Mayor resigned. Fire killed 45 people"
TwoSentences == MayorResigned \o <<".", " ">> \o FireKilled45

EventTexts == {MayorResigned, EllipsisMayorResigned, TwoSentences, <<>>}

\* "importance": high, medium or low
Importances == {"high", "medium", "low"}

\* Lists of events with their importance: none, one event, an event of low
\* importance before one of high importance, two events of high importance
RatedWhatFacts ==
    {<<>>}
    \cup {<<RatedWhatFact(TwoSentences, i)>> : i \in Importances}
    \cup {<<RatedWhatFact(MayorResigned, i), RatedWhatFact(FireKilled45, "high")>> :
            i \in {"low", "high"}}

\* Lists of claims with their importance: none, one claim, a claim of low
\* importance before one of high importance
RatedClaims ==
    {<<>>}
    \cup {<<RatedClaim(FireKilled60, i)>> : i \in Importances}
    \cup {<<RatedClaim(MayorResigned, "low"), RatedClaim(FireKilled60, "high")>>}

\* The facts an extraction can give: no facts, plain strings, one or two
\* events, a claim, events and a claim
QueryFacts ==
    {[keys |-> {"what_facts", "claims"}, what_facts |-> w, claims |-> c] :
        w \in {<<>>, <<PlainFact(MayorResigned)>>}
              \cup {<<WhatFact(e)>> : e \in EventTexts}
              \cup {<<WhatFact(e), WhatFact(FireKilled45)>> : e \in EventTexts},
        c \in {<<>>, <<ClaimFact(FireKilled60)>>}}
    \cup {[keys |-> {"what_facts", "claims"}, what_facts |-> w, claims |-> c] :
            w \in RatedWhatFacts, c \in RatedClaims}
    \cup {ExtractFacts(FailedExtraction)}

QueryKeys == {"primary_query", "alternative_queries", "keywords"}

QueryReplies ==
    {QueryReply(keys, q, <<>>) :
        keys \in {QueryKeys, QueryKeys \ {"primary_query"}, {}},
        q \in {MayorResigned, <<>>}}
    \cup {MalformedQuery, FailedQuery}

InitQuery ==
    /\ query_in \in [facts : QueryFacts, attempt : 1..max_attempts, reply : QueryReplies]
    /\ query_out = <<>>
    /\ ResolveIdle /\ ReviewIdle /\ FilterIdle /\ articles = <<>> /\ WorkflowIdle
    /\ ScoreIdle /\ ByIdIdle /\ MergeIdle /\ CalcIdle

\* query_data = curator.optimize_search_queries(original_facts, attempt):
\* query_out holds what the call returned
Optimize ==
    /\ query_out = <<>>
    /\ query_out' = <<OptimizeSearchQueries(query_in.facts, query_in.attempt,
                                            query_in.reply)>>
    /\ UNCHANGED <<query_in, resolveVars, reviewVars, articles, filterVars, workflowVars,
                   scoreVars, byIdVars, mergeVars, calcVars>>

NextQuery == Optimize

SpecQuery == InitQuery /\ [][NextQuery]_vars

\* ------------------------------------------------------------------------
\* POST /api/analyze (src/app/routes.py, analyze_article): a step is one of
\* the steps of the handler, done by one request on the store as it is then
\* ------------------------------------------------------------------------

MaxRequests == 2

Requests == 1..MaxRequests

\* The url of a request body, None for a body without url and text
RequestUrls == {OriginalUrl, None}

SourceA == [url |-> SourceUrlA, title |-> "Fire: A", source_type |-> "news_major"]

SourceB == [url |-> SourceUrlB, title |-> "Fire: B", source_type |-> "blog"]

SourceC == [url |-> SourceUrlC, title |-> "Fire: C", source_type |-> "news_major"]

SourceD == [url |-> SourceUrlD, title |-> "Fire: D", source_type |-> "blog"]

\* What the two searches of an attempt can find
SearchResults == {<<>>, <<SourceA>>, <<SourceA, SourceB>>, <<SourceA, SourceA>>}

\* What fetching a source can give: no page, a page without content, a page
\* with content
Fetches == {"failed", "empty", "content"}

\* The comparator finds the source relevant and in agreement
ConsistentReply ==
    JsonReply(ReplyKeys, [num |-> 9, scale |-> 1],
              <<WithConfidence(MatchingFact(MayorResigned, MayorResigned), "high")>>, <<>>)

\* The comparator finds the source just not relevant, yet lists a match
OffTopicReply ==
    JsonReply(ReplyKeys, [num |-> 39, scale |-> 2],
              <<MatchingFact(MayorResigned, MayorResigned)>>, <<>>)

ComparatorReplies == {ConsistentReply, OffTopicReply}

\* The comparator finds the source relevant and lists one pair of facts as
\* a match and as a conflict
DualReply ==
    JsonReply(ReplyKeys, [num |-> 9, scale |-> 1],
              <<MatchingFact(FireKilled45, FireKilled60)>>,
              <<ConflictingFact(FireKilled45, FireKilled60)>>)

\* The extractor finds a fact in the original article, or its call fails
ExtractedReply == FactsReply({"what_facts", "claims"}, <<WhatFact(MayorResigned)>>, <<>>)

ExtractorReplies == {ExtractedReply, FailedExtraction}

\* The ids the articles table can come to hold
ArticleIds == 1..(MaxRequests + Cardinality(FoundUrls))

\* compare_and_score on each reply of the comparator, computed once
Compared ==
    [reply \in ComparatorReplies \cup {DualReply}, comparison_article_id \in ArticleIds,
     source_type \in SourceTypes |->
         CompareAndScore(CompareFacts(reply), comparison_article_id, source_type)]

\* The analyses compare_and_score can return
ComparedAnalyses == {Compared[c][1] : c \in {d \in DOMAIN Compared : Compared[d] # <<>>}}

\* The loop body of review_and_reconcile_analyses on each of them, computed
\* once
Reviewed == [analysis \in ComparedAnalyses |-> ReviewAnalysis(analysis)]

\* review_and_reconcile_analyses(analyses), for the analyses of an attempt
ReviewedAnalyses(analyses) == [i \in DOMAIN analyses |-> Reviewed[analyses[i]]]

\* The limits of routes.py: attempts, and sources in cheap mode
DefaultMaxAttempts == 3

CheapMaxAttempts == 1

CheapMaxSources == 3

\* The locals of a request that has not arrived yet.  A local that is
\* not bound, or not read again before it is bound again, holds the value
\* it has here.
IdleRequest ==
    [pc |-> "idle", url |-> None, cheap_mode |-> FALSE,
     original_article |-> 0,        \* the id of original_article
     original_facts |-> <<>>,       \* <<original_facts>> once it is bound
     existing_report |-> 0,         \* the id of existing_report, 0 for None
     analyzed_ids |-> <<>>,
     max_attempts |-> 0, max_sources_to_check |-> 0,
     report |-> 0,                  \* the id of report, 0 for None
     new_sources_added |-> 0,
     attempt |-> 0,
     sources |-> <<>>,
     source_index |-> 0,            \* the position of the loop over sources
     analyses |-> <<>>,
     compared |-> {},               \* the ids of the sources whose facts were
                                    \* extracted and compared
     response |-> <<>>]

\* jsonify({'error': error}), status
ErrorResponse(status, error) == [status |-> status, success |-> FALSE, error |-> error]

\* str(e) of the exception a failed db.session.commit() raises, and of the
\* one a failed search raises
PersistenceError == "commit failed"

SearchError == "search failed"

\* The request has responded
Responded(response) == [IdleRequest EXCEPT !.pc = "done", !.response = <<response>>]

\* The handler's except clause: jsonify({'error': str(e)}), 500, without a
\* rollback of what the request has committed
Raised(error) == Responded(ErrorResponse(500, error))

\* The loop is left: the response is prepared from the report, read in the
\* reports table reps
Finished(req, reps) ==
    Responded([status |-> 200, success |-> TRUE, article_id |-> req.original_article,
               report_id |-> req.report, was_merged |-> req.existing_report # 0,
               new_sources_added |-> req.new_sources_added,
               total_attempts |-> IF req.report # 0
                                  THEN reps[req.report].analysis_attempts ELSE 1])

\* The loop goes on to the next attempt, or is exhausted
NextAttempt(req, reps) ==
    IF req.attempt < req.max_attempts
    THEN [req EXCEPT !.pc = "search", !.attempt = @ + 1,
                     !.sources = <<>>, !.source_index = 0, !.analyses = <<>>]
    ELSE Finished(req, reps)

\* The end of the loop body: break unless the curator asks for a retry
AfterAttempt(req, reps) ==
    IF req.report # 0 /\ ~ShouldRetryAnalysis(reps[req.report], req.attempt)
    THEN Finished(req, reps)
    ELSE NextAttempt(req, reps)

\* No request is being served
Quiet == \A q \in Requests : requests[q].pc \in {"idle", "done"}

\* The request arrives: a body without url and text is refused
Receive(r) ==
    /\ requests[r].pc = "idle"
    /\ \A q \in 1..(r - 1) : requests[q].pc # "idle"
    /\ \E url \in RequestUrls, cheap_mode \in BOOLEAN :
           requests' = [requests EXCEPT ![r] =
               IF url = None THEN Responded(ErrorResponse(400, "Either url or text must be provided"))
               ELSE [@ EXCEPT !.pc = "process", !.url = url,
                              !.cheap_mode = cheap_mode]]
    /\ comparator_call' = <<>>
    /\ UNCHANGED <<articles, analysis_table, reports, clock>>
    /\ UNCHANGED <<resolveVars, reviewVars, filterVars, scoreVars, queryVars, byIdVars, mergeVars, calcVars>>

\* The report the cheap-mode check finds for the article, 0 for none: a
\* report of the article, or the report of the original of an analysis
\* that compared the article
CheapModeReport(article_id) ==
    IF FirstReport(article_id) # 0 THEN FirstReport(article_id)
    ELSE IF FirstAnalysisComparing(article_id) # 0
    THEN FirstReport(analysis_table[FirstAnalysisComparing(article_id)].original_article_id)
    ELSE 0

\* Step 1: fact_extractor.process_article(url), which fails when the page
\* cannot be fetched, and otherwise stores a new Article for the url,
\* whatever the table holds and whatever the extractor replied; then the
\* cheap-mode check
ProcessArticle(r) ==
    /\ requests[r].pc = "process"
    /\ \E fetched \in BOOLEAN, extraction \in ExtractorReplies :
           IF fetched
           THEN /\ articles' = Append(articles, Article(requests[r].url, "original", TRUE))
                /\ requests' = [requests EXCEPT ![r] =
                       IF @.cheap_mode /\ CheapModeReport(Len(articles')) # 0
                       THEN Responded([status |-> 200, success |-> TRUE,
                                       article_id |-> Len(articles'),
                                       report_id |-> CheapModeReport(Len(articles')),
                                       cheap_mode_hit |-> TRUE])
                       ELSE [@ EXCEPT !.pc = "check", !.original_article = Len(articles'),
                                      !.original_facts = <<ExtractFacts(extraction)>>]]
           ELSE /\ requests' = [requests EXCEPT ![r] =
                       Responded(ErrorResponse(500, "Failed to process article"))]
                /\ UNCHANGED articles
    /\ comparator_call' = <<>>
    /\ UNCHANGED <<analysis_table, reports, clock>>
    /\ UNCHANGED <<resolveVars, reviewVars, filterVars, scoreVars, queryVars, byIdVars, mergeVars, calcVars>>

\* existing_report = curator.check_existing_analysis(url, text), and the
\* locals set before the loop
CheckExisting(r) ==
    /\ requests[r].pc = "check"
    /\ requests' = [requests EXCEPT ![r] =
           [@ EXCEPT
               !.pc = "search",
               !.existing_report = CheckExistingAnalysis(requests[r].url),
               !.analyzed_ids = IF CheckExistingAnalysis(requests[r].url) # 0
                                THEN GetAnalyzedArticleIds(requests[r].original_article)
                                ELSE <<requests[r].original_article>>,
               !.max_attempts = IF requests[r].cheap_mode THEN CheapMaxAttempts
                                ELSE DefaultMaxAttempts,
               !.max_sources_to_check = IF requests[r].cheap_mode THEN CheapMaxSources
                                        ELSE MAX_SOURCES_TO_CHECK,
               !.report = CheckExistingAnalysis(requests[r].url),
               !.new_sources_added = 0,
               !.attempt = 1]]
    /\ comparator_call' = <<>>
    /\ UNCHANGED <<articles, analysis_table, reports, clock>>
    /\ UNCHANGED <<resolveVars, reviewVars, filterVars, scoreVars, queryVars, byIdVars, mergeVars, calcVars>>

\* _deduplicate_sources(sources)
RECURSIVE DeduplicateFrom(_, _, _)
DeduplicateFrom(found, i, seen_urls) ==
    IF i > Len(found) THEN <<>>
    ELSE IF found[i].url # None /\ found[i].url # "" /\ found[i].url \notin seen_urls
         THEN <<found[i]>> \o DeduplicateFrom(found, i + 1, seen_urls \cup {found[i].url})
         ELSE DeduplicateFrom(found, i + 1, seen_urls)

\* The unique sources, were they not limited to max_sources
UncappedSources(found, max_sources) == DeduplicateFrom(found, 1, {})

\* find_corroborating_sources(query_data, max_sources), on what the two
\* searches have found
FindCorroboratingSources(found, max_sources) ==
    Prefix(DeduplicateFrom(found, 1, {}), max_sources)

\* The top of the loop body, given the filtered sources
Searched(req, filtered_sources) ==
    IF filtered_sources = <<>>
    THEN (IF req.report # 0 THEN Finished(req, reports) ELSE NextAttempt(req, reports))
    ELSE [req EXCEPT !.pc = "analyze", !.sources = filtered_sources,
                     !.source_index = 1, !.analyses = <<>>]

\* Step 2: the search, which finds one of search_results or raises, and the
\* curator's filter
Search(r, search_results) ==
    /\ requests[r].pc = "search"
    /\ \/ \E found \in search_results :
              requests' = [requests EXCEPT ![r] =
                  Searched(@, FilterDuplicateSources(
                                  FindCorroboratingSources(found, @.max_sources_to_check),
                                  articles[@.original_article].url, @.analyzed_ids))]
       \/ requests' = [requests EXCEPT ![r] = Raised(SearchError)]
    /\ comparator_call' = <<>>
    /\ UNCHANGED <<articles, analysis_table, reports, clock>>
    /\ UNCHANGED <<resolveVars, reviewVars, filterVars, scoreVars, queryVars, byIdVars, mergeVars, calcVars>>

\* The loop over sources[:Config.MAX_SOURCES_TO_CHECK] moves on
SourceDone(req) ==
    IF req.source_index >= Len(Prefix(req.sources, MAX_SOURCES_TO_CHECK))
    THEN [req EXCEPT !.pc = "conclude", !.source_index = 0]
    ELSE [req EXCEPT !.source_index = @ + 1]

\* analyses.append(analysis); analyzed_ids.append(source_article.id)
Analyzed(req, analysis, source_article) ==
    SourceDone([req EXCEPT !.analyses = Append(@, analysis),
                           !.analyzed_ids = Append(@, source_article)])

\* source_facts = fact_extractor.extract_facts_from_existing_article(...)
\* and scorer.compare_and_score(...) are called for the source
Called(req, source_article) == [req EXCEPT !.compared = @ \cup {source_article}]

\* The source article has content: an existing Analysis of the pair is
\* reused; otherwise the comparator is called, gives one of replies, and an
\* analysis that passes the relevance gate is saved at once, by a commit of
\* its own, which can fail
Compare(r, source_article, existing_analysis, replies) ==
    IF existing_analysis # 0
    THEN /\ requests' = [requests EXCEPT ![r] =
                Analyzed(@, AsDict(analysis_table[existing_analysis]), source_article)]
         /\ comparator_call' = <<>>
         /\ UNCHANGED analysis_table
    ELSE \E reply \in replies :
             /\ comparator_call' =
                    <<[request |-> r,
                       original_article_id |-> requests[r].original_article,
                       comparison_article_id |-> source_article, reply |-> reply,
                       again |-> source_article \in requests[r].compared]>>
             /\ IF Compared[reply, source_article, articles'[source_article].source_type] = <<>>
                THEN /\ requests' = [requests EXCEPT ![r] =
                                SourceDone(Called(@, source_article))]
                     /\ UNCHANGED analysis_table
                ELSE \E committed \in BOOLEAN :
                         IF committed
                         THEN /\ requests' = [requests EXCEPT ![r] =
                                     Analyzed(Called(@, source_article),
                                              Compared[reply, source_article,
                                                  articles'[source_article].source_type][1],
                                              source_article)]
                              /\ analysis_table' =
                                     Append(analysis_table,
                                            AnalysisRow(requests[r].original_article,
                                                Compared[reply, source_article,
                                                    articles'[source_article].source_type][1]))
                         ELSE /\ requests' = [requests EXCEPT ![r] = Raised(PersistenceError)]
                              /\ UNCHANGED analysis_table

\* fetch_and_store_source(url, source_type) for a fetched page: the first
\* Article stored for the url is returned, or a new one is stored; a
\* source whose article has no content is skipped
Fetched(r, source, content, existing_article, replies) ==
    /\ articles' = IF existing_article # 0 THEN articles
                   ELSE Append(articles, Article(source.url, source.source_type, content))
    /\ IF articles'[IF existing_article # 0 THEN existing_article ELSE Len(articles')].content
       THEN Compare(r, IF existing_article # 0 THEN existing_article ELSE Len(articles'),
                    FirstAnalysisOf(requests[r].original_article,
                                    IF existing_article # 0 THEN existing_article
                                    ELSE Len(articles')),
                    replies)
       ELSE /\ requests' = [requests EXCEPT ![r] = SourceDone(@)]
            /\ comparator_call' = <<>>
            /\ UNCHANGED analysis_table

\* Step 3, for one source: the page is fetched, its article stored, and
\* the source is compared with the original
AnalyzeSource(r, fetches, replies) ==
    /\ requests[r].pc = "analyze"
    /\ \E fetch \in fetches :
           IF fetch = "failed"
           THEN /\ requests' = [requests EXCEPT ![r] = SourceDone(@)]
                /\ comparator_call' = <<>>
                /\ UNCHANGED <<articles, analysis_table>>
           ELSE Fetched(r, requests[r].sources[requests[r].source_index],
                        fetch = "content",
                        ArticleByUrl(requests[r].sources[requests[r].source_index].url),
                        replies)
    /\ UNCHANGED <<reports, clock>>
    /\ UNCHANGED <<resolveVars, reviewVars, filterVars, scoreVars, queryVars, byIdVars, mergeVars, calcVars>>

\* What the commits of step 4 can come to: all succeed; the commit of the
\* merge or of the new Report fails; the commit of the new Report succeeds
\* and the one of its analysis_attempts fails
Commits == {"committed", "failed", "update failed"}

\* Step 4, on the reviewed analyses: merge into the existing report, or
\* generate a new one; then the retry check
Reported(r, req, analyses, commit) ==
    IF analyses # <<>> /\ commit = "failed"
    THEN /\ requests' = [requests EXCEPT ![r] = Raised(PersistenceError)]
         /\ UNCHANGED <<reports, clock>>
    ELSE IF req.existing_report # 0 /\ analyses # <<>>
    THEN /\ reports' = MergeReports(req.existing_report, analyses, clock)
         /\ clock' = clock + 1
         /\ requests' = [requests EXCEPT ![r] =
                AfterAttempt([req EXCEPT !.report = req.existing_report,
                                         !.new_sources_added = @ + Len(analyses)],
                             reports')]
    ELSE IF analyses # <<>> /\ commit = "update failed"
    THEN /\ reports' = Append(reports,
                              GenerateFinalReport(req.original_article, analyses, clock))
         /\ clock' = clock + 1
         /\ requests' = [requests EXCEPT ![r] = Raised(PersistenceError)]
    ELSE IF analyses # <<>>
    THEN /\ reports' = Append(reports,
                           [GenerateFinalReport(req.original_article, analyses, clock)
                               EXCEPT !.analysis_attempts = req.attempt])
         /\ clock' = clock + 1
         /\ requests' = [requests EXCEPT ![r] =
                AfterAttempt([req EXCEPT !.report = Len(reports'),
                                         !.new_sources_added = Len(analyses)],
                             reports')]
    ELSE /\ requests' = [requests EXCEPT ![r] = AfterAttempt(req, reports)]
         /\ UNCHANGED <<reports, clock>>

\* Steps 3.5 and 4 and the retry check
Conclude(r) ==
    /\ requests[r].pc = "conclude"
    /\ \E commit \in Commits :
           Reported(r, requests[r], ReviewedAnalyses(requests[r].analyses), commit)
    /\ comparator_call' = <<>>
    /\ UNCHANGED <<articles, analysis_table>>
    /\ UNCHANGED <<resolveVars, reviewVars, filterVars, scoreVars, queryVars, byIdVars, mergeVars, calcVars>>

InitAnalyze ==
    /\ requests = [r \in Requests |-> IdleRequest]
    /\ articles = <<>>
    /\ analysis_table = <<>>
    /\ reports = <<>>
    /\ clock = 1
    /\ comparator_call = <<>>
    /\ ResolveIdle /\ ReviewIdle /\ FilterIdle /\ ScoreIdle /\ QueryIdle /\ ByIdIdle /\ MergeIdle /\ CalcIdle

\* Specification SpecAnalyze: the requests are served one after the other
NextAnalyze ==
    \E r \in Requests :
        \/ Quiet /\ Receive(r)
        \/ ProcessArticle(r)
        \/ CheckExisting(r)
        \/ Search(r, SearchResults)
        \/ AnalyzeSource(r, Fetches, ComparatorReplies)
        \/ Conclude(r)

SpecAnalyze == InitAnalyze /\ [][NextAnalyze]_vars

\* Specification SpecStored: one request is served, the search finds up to
\* two sources whose pages are there, and the comparator's reply is
\* consistent or dual-classified
NextStored ==
    \/ Receive(1)
    \/ ProcessArticle(1)
    \/ CheckExisting(1)
    \/ Search(1, {<<>>, <<SourceA>>, <<SourceA, SourceB>>})
    \/ AnalyzeSource(1, {"content"}, {ConsistentReply, DualReply})
    \/ Conclude(1)

SpecStored == InitAnalyze /\ [][NextStored]_vars

\* Specification SpecConcurrent: the requests are served concurrently, the
\* steps of one between the steps of the other; the search finds one
\* source, whose page is there
NextConcurrent ==
    \E r \in Requests :
        \/ Receive(r)
        \/ ProcessArticle(r)
        \/ CheckExisting(r)
        \/ Search(r, {<<SourceA>>})
        \/ AnalyzeSource(r, {"content"}, ComparatorReplies)
        \/ Conclude(r)

SpecConcurrent == InitAnalyze /\ [][NextConcurrent]_vars

\* What the two searches of an attempt can find when more sources are there
\* than cheap mode takes
ManySearchResults == {<<>>, <<SourceA, SourceB, SourceC, SourceD>>}

\* The stores a request can find: nothing stored, or the url analyzed and
\* reported before
AttemptStores ==
    {[articles |-> <<>>, analysis_table |-> <<>>, reports |-> <<>>, clock |-> 1],
     [articles |-> <<Article(OriginalUrl, "original", TRUE),
                     Article(SourceUrlA, "news_major", TRUE)>>,
      analysis_table |-> <<AnalysisRow(1, Compared[ConsistentReply, 2, "news_major"][1])>>,
      reports |-> <<GenerateFinalReport(
                        1, <<Compared[ConsistentReply, 2, "news_major"][1]>>, 1)>>,
      clock |-> 2]}

InitAttempts ==
    /\ requests = [r \in Requests |-> IdleRequest]
    /\ \E store \in AttemptStores :
           /\ articles = store.articles
           /\ analysis_table = store.analysis_table
           /\ reports = store.reports
           /\ clock = store.clock
    /\ comparator_call = <<>>
    /\ ResolveIdle /\ ReviewIdle /\ FilterIdle /\ ScoreIdle /\ QueryIdle /\ ByIdIdle /\ MergeIdle /\ CalcIdle

\* Specification SpecAttempts: one request is served to its end.  The
\* handler runs on while it has a step to take: the steps are weakly fair,
\* WF_vars(NextAttempts), written out with what ENABLED <<NextAttempts>>_vars
\* comes to, that the request has not responded.
NextAttempts ==
    \/ Receive(1)
    \/ ProcessArticle(1)
    \/ CheckExisting(1)
    \/ Search(1, ManySearchResults)
    \/ AnalyzeSource(1, {"failed", "content"}, {ConsistentReply})
    \/ Conclude(1)

HandlerRuns == []<>(requests[1].pc = "done") \/ []<><<NextAttempts>>_vars

SpecAttempts == InitAttempts /\ [][NextAttempts]_vars /\ HandlerRuns

\* ------------------------------------------------------------------------
\* The operations by id of src/app/routes.py: get_report, delete_report,
\* rerun_curator_review, reclassify_fact.  A deleted row leaves its id
\* behind: its place in the table holds a row of no article.
\* ------------------------------------------------------------------------

\* rescore_analysis(matching_facts, conflicting_facts): the points
StrongMatches(matching_facts) ==
    Cardinality({i \in DOMAIN matching_facts :
                     /\ matching_facts[i].kind = "dict"
                     /\ matching_facts[i].match_strength = "strong"})

HighConflicts(conflicting_facts) ==
    Cardinality({i \in DOMAIN conflicting_facts :
                     /\ conflicting_facts[i].kind = "dict"
                     /\ conflicting_facts[i].conflict_severity = "high"})

LowConflicts(conflicting_facts) ==
    Cardinality({i \in DOMAIN conflicting_facts :
                     /\ conflicting_facts[i].kind = "dict"
                     /\ conflicting_facts[i].conflict_severity \notin {"high", "medium", None}})

PositivePoints(matching_facts) ==
    StrongMatches(matching_facts) * 10
    + (Len(matching_facts) - StrongMatches(matching_facts)) * 7

NegativePoints(conflicting_facts) ==
    HighConflicts(conflicting_facts) * 15
    + (Len(conflicting_facts) - HighConflicts(conflicting_facts)
       - LowConflicts(conflicting_facts)) * 10
    + LowConflicts(conflicting_facts) * 5

\* min(100.0, (raw_score / max_possible) * 100)
ScoreOfPoints(raw_score, max_possible) ==
    FMin(Literal(1000, 1),
         FMul(FDiv(FFromInt(raw_score), FFromInt(max_possible)), FFromInt(100)))

\* rescore_analysis(matching_facts, conflicting_facts)
RescoreAnalysis(matching_facts, conflicting_facts) ==
    IF Len(matching_facts) + Len(conflicting_facts) = 0 THEN Literal(500, 1)
    ELSE ScoreOfPoints(Max(0, PositivePoints(matching_facts)
                              - NegativePoints(conflicting_facts)),
                       (Len(matching_facts) + Len(conflicting_facts)) * 10)

\* The rows that stand for a deleted Analysis and a deleted Report
DeletedAnalysis ==
    [original_article_id |-> 0, comparison_article_id |-> 0, accuracy_score |-> FZero,
     matching_facts |-> <<>>, conflicting_facts |-> <<>>,
     analysis_details |-> [relevance_score |-> FZero, source_type |-> None]]

DeletedReport == [Report(0, FZero, "low", <<>>, 0) EXCEPT !.analysis_attempts = 0]

\* Report.query.get(report_id) and Analysis.query.get(analysis_id), 0 for None
ReportById(report_id) ==
    IF report_id \in DOMAIN reports /\ reports[report_id] # DeletedReport
    THEN report_id ELSE 0

AnalysisById(analysis_id) ==
    IF analysis_id \in DOMAIN analysis_table /\ analysis_table[analysis_id] # DeletedAnalysis
    THEN analysis_id ELSE 0

\* The operation responds, with the store as it is
Responds(op, id, response) ==
    /\ by_id' = <<[op |-> op, id |-> id, response |-> response]>>
    /\ UNCHANGED <<articles, analysis_table, reports, clock>>

\* The operation responds 200
Succeeds(op, id) ==
    by_id' = <<[op |-> op, id |-> id, response |-> [status |-> 200, success |-> TRUE]]>>

\* The operation's except clause: db.session.rollback(), and the error
Fails(op, id, error) ==
    by_id' = <<[op |-> op, id |-> id, response |-> ErrorResponse(500, error)]>>

\* The bound on the writes of the operations by id
MaxWrites == 3

\* GET /api/report/<report_id>
GetReport(report_id) ==
    /\ IF ReportById(report_id) = 0
       THEN Responds("get_report", report_id, ErrorResponse(404, "Report not found"))
       ELSE Responds("get_report", report_id,
                     [status |-> 200, success |-> TRUE, report |-> reports[report_id]])
    /\ UNCHANGED <<requests, comparator_call>>
    /\ UNCHANGED <<resolveVars, reviewVars, filterVars, scoreVars, queryVars, mergeVars, calcVars>>

\* DELETE /api/report/<report_id>/delete: the Analyses of the Report's
\* original article and the Report are deleted by one commit
DeleteReport(report_id) ==
    /\ clock <= MaxWrites
    /\ IF ReportById(report_id) = 0
       THEN Responds("delete_report", report_id, ErrorResponse(404, "Report not found"))
       ELSE \E committed \in BOOLEAN :
                IF committed
                THEN /\ analysis_table' =
                            [k \in DOMAIN analysis_table |->
                                IF analysis_table[k].original_article_id
                                       = reports[report_id].original_article_id
                                THEN DeletedAnalysis ELSE analysis_table[k]]
                     /\ reports' = [reports EXCEPT ![report_id] = DeletedReport]
                     /\ clock' = clock + 1
                     /\ Succeeds("delete_report", report_id)
                     /\ UNCHANGED articles
                ELSE /\ Fails("delete_report", report_id, PersistenceError)
                     /\ UNCHANGED <<articles, analysis_table, reports, clock>>
    /\ UNCHANGED <<requests, comparator_call>>
    /\ UNCHANGED <<resolveVars, reviewVars, filterVars, scoreVars, queryVars, mergeVars, calcVars>>

\* The ids of the Analysis rows of the original article
AnalysisIdsOf(original_article_id) ==
    {k \in DOMAIN analysis_table :
         analysis_table[k].original_article_id = original_article_id}

\* The analyses table with the lists of the rows of the original article
\* replaced by the reconciled ones
ReconciledTable(original_article_id) ==
    [k \in DOMAIN analysis_table |->
        IF analysis_table[k].original_article_id = original_article_id
        THEN WithLists(analysis_table[k], ReviewAnalysis(AsDict(analysis_table[k])))
        ELSE analysis_table[k]]

\* The Report left as it is
NotRecalculated(report, all_analyses, now) == report

\* The Report recalculated from all_analyses
Recalculated(report, all_analyses, now) ==
    [report EXCEPT !.overall_score = CalculateOverallScore(all_analyses),
                   !.confidence_level = DetermineConfidenceLevel(all_analyses),
                   !.individual_analyses = ComparisonIds(all_analyses),
                   !.last_updated = now]

\* POST /api/report/<report_id>/review: the reconciled lists are committed,
\* then the recalculated Report
RerunCuratorReview(report_id) ==
    /\ clock <= MaxWrites
    /\ IF ReportById(report_id) = 0
       THEN Responds("rerun_curator_review", report_id,
                     ErrorResponse(404, "Report not found"))
       ELSE IF AnalysisIdsOf(reports[report_id].original_article_id) = {}
       THEN Responds("rerun_curator_review", report_id,
                     ErrorResponse(404, "No analyses found for this report"))
       ELSE \E commit \in Commits :
                /\ IF commit = "failed"
                   THEN /\ Fails("rerun_curator_review", report_id, PersistenceError)
                        /\ UNCHANGED <<analysis_table, reports, clock>>
                   ELSE /\ analysis_table' =
                               ReconciledTable(reports[report_id].original_article_id)
                        /\ clock' = clock + 1
                        /\ IF commit = "update failed"
                           THEN /\ Fails("rerun_curator_review", report_id,
                                         PersistenceError)
                                /\ UNCHANGED reports
                           ELSE /\ reports' = [reports EXCEPT ![report_id] =
                                       Recalculated(@,
                                           ReviewAndReconcileAnalyses(
                                               AnalysesOf(@.original_article_id)),
                                           clock)]
                                /\ Succeeds("rerun_curator_review", report_id)
                /\ UNCHANGED articles
    /\ UNCHANGED <<requests, comparator_call>>
    /\ UNCHANGED <<resolveVars, reviewVars, filterVars, scoreVars, queryVars, mergeVars, calcVars>>

\* str(moved_fact) of a dict: its repr, of which the model keeps the braces
StrOfDict == <<"{", "}">>

\* A matching fact as a conflicting fact
AsConflicting(moved_fact) ==
    [Dict(Or(Or(moved_fact.original_fact, moved_fact.fact), StrOfDict), <<>>,
          moved_fact.comparison_fact, <<>>, <<>>)
        EXCEPT !.conflict_type = "user_reclassified",
               !.conflict_severity = "low",
               !.category = IF moved_fact.category = None THEN "what"
                            ELSE moved_fact.category]

\* A conflicting fact as a matching fact
AsMatching(moved_fact) ==
    [Dict(<<>>, moved_fact.original, <<>>, moved_fact.comparison, <<>>)
        EXCEPT !.match_strength = "moderate",
               !.category = IF moved_fact.category = None THEN "what"
                            ELSE moved_fact.category]

\* The place in facts of Python's index fact_index, 0 when pop raises
PlaceOf(facts, fact_index) ==
    IF fact_index >= 0 THEN fact_index + 1
    ELSE IF Len(facts) + fact_index >= 0 THEN Len(facts) + fact_index + 1
    ELSE 0

\* facts without the entry at place
Without(facts, place) == SubSeq(facts, 1, place - 1) \o SubSeq(facts, place + 1, Len(facts))

\* The parameters name a fact of the Analysis
NamesFact(analysis, data) ==
    \/ /\ data.from_category = "matching"
       /\ data.fact_index[1] < Len(analysis.matching_facts)
    \/ /\ data.from_category = "conflicting"
       /\ data.fact_index[1] < Len(analysis.conflicting_facts)

\* The list the fact is taken from
FromList(analysis, data) ==
    IF /\ data.from_category = "matching"
       /\ data.fact_index[1] < Len(analysis.matching_facts)
    THEN analysis.matching_facts ELSE analysis.conflicting_facts

\* The move raises: pop on an index out of range, or .get on a plain string
MoveRaises(analysis, data) ==
    \/ PlaceOf(FromList(analysis, data), data.fact_index[1]) = 0
    \/ FromList(analysis, data)[PlaceOf(FromList(analysis, data),
                                        data.fact_index[1])].kind # "dict"

\* The lists after the move of the fact, for parameters that name one
MovedLists(analysis, data) ==
    IF /\ data.from_category = "matching"
       /\ data.fact_index[1] < Len(analysis.matching_facts)
    THEN [matching_facts |->
              Without(analysis.matching_facts,
                      PlaceOf(analysis.matching_facts, data.fact_index[1])),
          conflicting_facts |->
              Append(analysis.conflicting_facts,
                     AsConflicting(analysis.matching_facts[
                         PlaceOf(analysis.matching_facts, data.fact_index[1])]))]
    ELSE [matching_facts |->
              Append(analysis.matching_facts,
                     AsMatching(analysis.conflicting_facts[
                         PlaceOf(analysis.conflicting_facts, data.fact_index[1])])),
          conflicting_facts |->
              Without(analysis.conflicting_facts,
                      PlaceOf(analysis.conflicting_facts, data.fact_index[1]))]

\* The Analysis with the lists after the move, rescored
Reclassified(analysis, lists) ==
    [WithLists(analysis, lists) EXCEPT
        !.accuracy_score = RescoreAnalysis(lists.matching_facts, lists.conflicting_facts)]

\* The rows of the original article in the analyses table, as dicts
RowsAsDicts(table, original_article_id) ==
    [i \in DOMAIN SelectSeq(table, LAMBDA a : a.original_article_id = original_article_id)
        |-> AsDict(SelectSeq(table,
                             LAMBDA a : a.original_article_id = original_article_id)[i])]

\* The move and the rescoring are committed; then the Report of the
\* original article is recalculated and committed, if there is one
Rescored(analysis_id, original_article_id, commit) ==
    IF commit = "failed"
    THEN /\ Fails("reclassify_fact", analysis_id, PersistenceError)
         /\ UNCHANGED <<analysis_table, reports, clock>>
    ELSE /\ clock' = clock + 1
         /\ IF FirstReport(original_article_id) = 0
            THEN /\ by_id' = <<[op |-> "reclassify_fact", id |-> analysis_id,
                                response |-> ErrorResponse(404, "Report not found")]>>
                 /\ UNCHANGED reports
            ELSE IF commit = "update failed"
            THEN /\ Fails("reclassify_fact", analysis_id, PersistenceError)
                 /\ UNCHANGED reports
            ELSE /\ reports' = [reports EXCEPT ![FirstReport(original_article_id)] =
                        Recalculated(@, RowsAsDicts(analysis_table', original_article_id),
                                     clock)]
                 /\ Succeeds("reclassify_fact", analysis_id)

\* POST /api/analysis/<analysis_id>/reclassify with the body data
ReclassifyFact(analysis_id, data) ==
    /\ clock <= MaxWrites
    /\ IF data.fact_index = <<>> \/ data.from_category = "" \/ data.to_category = ""
       THEN Responds("reclassify_fact", analysis_id,
                     ErrorResponse(400, "Missing required parameters"))
       ELSE IF AnalysisById(analysis_id) = 0
       THEN Responds("reclassify_fact", analysis_id,
                     ErrorResponse(404, "Analysis not found"))
       ELSE IF ~NamesFact(analysis_table[analysis_id], data)
       THEN Responds("reclassify_fact", analysis_id,
                     ErrorResponse(400, "Invalid fact_index or category"))
       ELSE IF MoveRaises(analysis_table[analysis_id], data)
       THEN /\ Fails("reclassify_fact", analysis_id, "move raised")
            /\ UNCHANGED <<articles, analysis_table, reports, clock>>
       ELSE \E commit \in Commits :
                /\ IF commit = "failed" THEN TRUE
                   ELSE analysis_table' = [analysis_table EXCEPT ![analysis_id] =
                            Reclassified(@, MovedLists(@, data))]
                /\ Rescored(analysis_id, analysis_table[analysis_id].original_article_id,
                            commit)
                /\ UNCHANGED articles
    /\ UNCHANGED <<requests, comparator_call>>
    /\ UNCHANGED <<resolveVars, reviewVars, filterVars, scoreVars, queryVars, mergeVars, calcVars>>

\* ------------------------------------------------------------------------
\* Specification SpecById: the operations by id on a store that analyze
\* requests have left
\* ------------------------------------------------------------------------

\* The comparator finds the source relevant, with a match and a conflict
DisputedReply ==
    JsonReply(ReplyKeys, [num |-> 8, scale |-> 1],
              <<MatchingFact(MayorResigned, MayorResigned)>>,
              <<ConflictingFact(FireKilled45, FireKilled60)>>)

\* The analysis of source A (Article 2) for that reply
DisputedAnalysis == CompareAndScore(CompareFacts(DisputedReply), 2, "news_major")[1]

\* The stores: nothing stored; one request has analyzed source A and
\* reported; its Analysis is stored and its Report is not (the commit of the
\* Report failed); a second request for the url has analyzed A again and
\* merged into the Report of the first; one request has analyzed sources A
\* and B and reported
ByIdStores ==
    {[articles |-> <<>>, analysis_table |-> <<>>, reports |-> <<>>, clock |-> 1],
     [articles |-> <<Article(OriginalUrl, "original", TRUE),
                     Article(SourceUrlA, "news_major", TRUE)>>,
      analysis_table |-> <<AnalysisRow(1, DisputedAnalysis)>>,
      reports |-> <<GenerateFinalReport(1, <<DisputedAnalysis>>, 1)>>,
      clock |-> 2],
     [articles |-> <<Article(OriginalUrl, "original", TRUE),
                     Article(SourceUrlA, "news_major", TRUE)>>,
      analysis_table |-> <<AnalysisRow(1, DisputedAnalysis)>>,
      reports |-> <<>>,
      clock |-> 1],
     [articles |-> <<Article(OriginalUrl, "original", TRUE),
                     Article(SourceUrlA, "news_major", TRUE),
                     Article(OriginalUrl, "original", TRUE)>>,
      analysis_table |-> <<AnalysisRow(1, DisputedAnalysis),
                           AnalysisRow(3, DisputedAnalysis)>>,
      reports |-> <<Merged(GenerateFinalReport(1, <<DisputedAnalysis>>, 1),
                           <<DisputedAnalysis, DisputedAnalysis>>, 2)>>,
      clock |-> 3],
     [articles |-> <<Article(OriginalUrl, "original", TRUE),
                     Article(SourceUrlA, "news_major", TRUE),
                     Article(SourceUrlB, "blog", TRUE)>>,
      analysis_table |-> <<AnalysisRow(1, DisputedAnalysis),
                           AnalysisRow(1, Compared[ConsistentReply, 3, "blog"][1])>>,
      reports |-> <<GenerateFinalReport(
                        1, <<DisputedAnalysis, Compared[ConsistentReply, 3, "blog"][1]>>,
                        1)>>,
      clock |-> 2]}

\* The ids an operation is asked for
MaxId == 3

Ids == 1..MaxId

\* The bodies of reclassify requests
ReclassifyBodies ==
    {[fact_index |-> <<0>>, from_category |-> "matching", to_category |-> "conflicting"],
     [fact_index |-> <<0>>, from_category |-> "conflicting", to_category |-> "matching"],
     [fact_index |-> <<-1>>, from_category |-> "conflicting", to_category |-> "matching"],
     [fact_index |-> <<1>>, from_category |-> "matching", to_category |-> "conflicting"],
     [fact_index |-> <<>>, from_category |-> "matching", to_category |-> "conflicting"]}

InitById ==
    /\ \E store \in ByIdStores :
           /\ articles = store.articles
           /\ analysis_table = store.analysis_table
           /\ reports = store.reports
           /\ clock = store.clock
    /\ requests = <<>>
    /\ comparator_call = <<>>
    /\ by_id = <<>>
    /\ ResolveIdle /\ ReviewIdle /\ FilterIdle /\ ScoreIdle /\ QueryIdle /\ MergeIdle /\ CalcIdle

NextById ==
    \E id \in Ids :
        \/ GetReport(id)
        \/ DeleteReport(id)
        \/ RerunCuratorReview(id)
        \/ \E data \in ReclassifyBodies : ReclassifyFact(id, data)

SpecById == InitById /\ [][NextById]_vars

\* ------------------------------------------------------------------------
\* Specification SpecMerge: merge_reports called on a Report of the store,
\* with new analyses or with none
\* ------------------------------------------------------------------------

\* The new_sources_count merge_reports returns
NewSourcesCount(new_analyses) == IF new_analyses = <<>> THEN 0 ELSE Len(new_analyses)

\* The calls are made while the clock is at most this
MaxMergeClock == 5

\* The stores that hold a Report
MergeStores == {store \in ByIdStores : store.reports # <<>>}

\* The lists of new analyses
NewAnalyses ==
    {<<>>, <<DisputedAnalysis>>, <<Compared[ConsistentReply, 2, "news_major"][1]>>,
     <<DisputedAnalysis, Compared[ConsistentReply, 3, "blog"][1]>>}

\* merge_reports(existing_report, new_analyses): the call returns the report
\* and the count, or its commit raises
MergeCall(existing_report, new_analyses) ==
    /\ existing_report \in DOMAIN reports
    /\ clock <= MaxMergeClock
    /\ \E committed \in BOOLEAN :
           IF committed \/ new_analyses = <<>>
           THEN /\ reports' = MergeReports(existing_report, new_analyses, clock)
                /\ merge_call' = <<[existing_report |-> existing_report,
                                    new_analyses |-> new_analyses,
                                    returned |-> TRUE,
                                    report |-> existing_report,
                                    new_sources_count |-> NewSourcesCount(new_analyses)]>>
           ELSE /\ UNCHANGED reports
                /\ merge_call' = <<[existing_report |-> existing_report,
                                    new_analyses |-> new_analyses,
                                    returned |-> FALSE,
                                    report |-> 0,
                                    new_sources_count |-> 0]>>
    /\ clock' = clock + 1
    /\ UNCHANGED <<articles, analysis_table, requests, comparator_call>>
    /\ UNCHANGED <<resolveVars, reviewVars, filterVars, scoreVars, queryVars, byIdVars, calcVars>>

InitMerge ==
    /\ \E store \in MergeStores :
           /\ articles = store.articles
           /\ analysis_table = store.analysis_table
           /\ reports = store.reports
           /\ clock = store.clock
    /\ requests = <<>>
    /\ comparator_call = <<>>
    /\ merge_call = <<>>
    /\ ResolveIdle /\ ReviewIdle /\ FilterIdle /\ ScoreIdle /\ QueryIdle /\ ByIdIdle /\ CalcIdle

NextMerge ==
    \E existing_report \in Ids, new_analyses \in NewAnalyses :
        MergeCall(existing_report, new_analyses)

SpecMerge == InitMerge /\ [][NextMerge]_vars

\* ------------------------------------------------------------------------
\* Specification SpecCalc: the scoring functions of the scorer and the
\* curator, each applied to one input
\* ------------------------------------------------------------------------

MaxCalcFacts == 3

MaxCalcConflicts == 2

MaxCalcAnalyses == 3

\* Matching facts by confidence and strength: high and strong, neither
\* given, low, and a plain string
CalcMatchingFacts ==
    {[WithConfidence(MatchingFact(MayorResigned, MayorResigned), "high")
         EXCEPT !.match_strength = "strong"],
     MatchingFact(MayorResigned, MayorResigned),
     WithConfidence(MatchingFact(MayorResigned, MayorResigned), "low"),
     Str(MayorResigned)}

\* Conflicting facts by severity: high, not given, low
CalcConflictingFacts ==
    {[ConflictingFact(FireKilled45, FireKilled60) EXCEPT !.conflict_severity = "high"],
     ConflictingFact(FireKilled45, FireKilled60),
     [ConflictingFact(FireKilled45, FireKilled60) EXCEPT !.conflict_severity = "low"]}

\* An analysis dict with a score and a source type
ScoredAnalysis(accuracy_score, source_type) ==
    [comparison_article_id |-> 2, accuracy_score |-> accuracy_score,
     matching_facts |-> <<>>, conflicting_facts |-> <<>>,
     analysis_details |-> [relevance_score |-> Literal(5, 1),
                           source_type |-> source_type]]

\* Scores 0.0, 33.33 and 100.0, from sources of weight 1.0, 0.6, 0.3 and of
\* a type without a weight
CalcAnalyses ==
    {ScoredAnalysis(score, source_type) :
         score \in {FZero, Literal(3333, 2), Literal(1000, 1)},
         source_type \in {"official", "news_general", "social", "wire"}}

CalcFactLists ==
    [matching : SeqsUpTo(CalcMatchingFacts, MaxCalcFacts),
     conflicting : SeqsUpTo(CalcConflictingFacts, MaxCalcConflicts)]

\* The calls
ScoreCalls ==
    {[fn |-> fn, matching |-> l.matching, conflicting |-> l.conflicting, analyses |-> <<>>] :
         fn \in {"_calculate_comparison_score", "rescore_analysis"}, l \in CalcFactLists}
    \cup {[fn |-> "_calculate_overall_score", matching |-> <<>>, conflicting |-> <<>>,
           analyses |-> a] : a \in SeqsUpTo(CalcAnalyses, MaxCalcAnalyses)}

\* The calls of generate_final_report: for no analyses, one and two
ReportCalls ==
    {[fn |-> "generate_final_report", original_article_id |-> id, analyses |-> a] :
         id \in 1..2, a \in SeqsUpTo(CalcAnalyses, 2)}

MaxConfidenceAnalyses == 6

\* Accuracy scores in hundredths, as round(score, 2) leaves them: lists of
\* equal scores at and next to the thresholds, and lists of different
\* scores whose average is 60.00 or 80.00
ConfidenceScores ==
    {[i \in 1..n |-> h] : n \in 0..MaxConfidenceAnalyses,
                          h \in {0, 5999, 6000, 7999, 8000, 10000}}
    \cup {<<4930, 8685, 3208, 7177>>, <<9336, 7910, 754>>,
          <<7697, 8148, 9194, 7316, 7645>>, <<10000, 10000, 10000, 10000, 0>>,
          <<10000, 10000, 10000, 10000, 10000, 0>>}

\* The calls of _determine_confidence_level: analyses with these scores
ConfidenceCalls ==
    {[fn |-> "_determine_confidence_level", hundredths |-> h,
      analyses |-> [i \in DOMAIN h |-> ScoredAnalysis(Literal(h[i], 2), "news_general")]] :
         h \in ConfidenceScores}

InitCalc ==
    /\ calc_in \in ScoreCalls \cup ReportCalls \cup ConfidenceCalls
    /\ calc_out = <<>>
    /\ ResolveIdle /\ ReviewIdle /\ FilterIdle /\ articles = <<>> /\ WorkflowIdle
    /\ ScoreIdle /\ QueryIdle /\ ByIdIdle /\ MergeIdle

\* score = self._calculate_comparison_score(comparison_result, ...)
CallComparisonScore ==
    /\ calc_in.fn = "_calculate_comparison_score"
    /\ calc_out = <<>>
    /\ calc_out' = <<CalculateComparisonScore([matching |-> calc_in.matching,
                                               conflicting |-> calc_in.conflicting])>>
    /\ UNCHANGED <<calc_in, resolveVars, reviewVars, articles, filterVars, workflowVars,
                   scoreVars, queryVars, byIdVars, mergeVars>>

\* new_score = curator.rescore_analysis(matching_facts, conflicting_facts)
CallRescoreAnalysis ==
    /\ calc_in.fn = "rescore_analysis"
    /\ calc_out = <<>>
    /\ calc_out' = <<RescoreAnalysis(calc_in.matching, calc_in.conflicting)>>
    /\ UNCHANGED <<calc_in, resolveVars, reviewVars, articles, filterVars, workflowVars,
                   scoreVars, queryVars, byIdVars, mergeVars>>

\* overall_score = self._calculate_overall_score(analyses)
CallOverallScore ==
    /\ calc_in.fn = "_calculate_overall_score"
    /\ calc_out = <<>>
    /\ calc_out' = <<CalculateOverallScore(calc_in.analyses)>>
    /\ UNCHANGED <<calc_in, resolveVars, reviewVars, articles, filterVars, workflowVars,
                   scoreVars, queryVars, byIdVars, mergeVars>>

\* report = scorer.generate_final_report(original_article_id, analyses):
\* the Report is added and committed, and calc_out holds its id, or the
\* commit raises, and calc_out holds 0
CallGenerateFinalReport ==
    /\ calc_in.fn = "generate_final_report"
    /\ calc_out = <<>>
    /\ \E committed \in BOOLEAN :
           IF committed
           THEN /\ reports' = Append(reports,
                                     GenerateFinalReport(calc_in.original_article_id,
                                                         calc_in.analyses, clock))
                /\ clock' = clock + 1
                /\ calc_out' = <<Len(reports')>>
           ELSE /\ calc_out' = <<0>>
                /\ UNCHANGED <<reports, clock>>
    /\ UNCHANGED <<calc_in, resolveVars, reviewVars, articles, filterVars, scoreVars,
                   queryVars, byIdVars, mergeVars>>
    /\ UNCHANGED <<analysis_table, requests, comparator_call>>

\* confidence_level = self._determine_confidence_level(analyses)
CallConfidenceLevel ==
    /\ calc_in.fn = "_determine_confidence_level"
    /\ calc_out = <<>>
    /\ calc_out' = <<DetermineConfidenceLevel(calc_in.analyses)>>
    /\ UNCHANGED <<calc_in, resolveVars, reviewVars, articles, filterVars, workflowVars,
                   scoreVars, queryVars, byIdVars, mergeVars>>

NextCalc ==
    \/ CallConfidenceLevel
    \/ CallComparisonScore
    \/ CallRescoreAnalysis
    \/ CallOverallScore
    \/ CallGenerateFinalReport

SpecCalc == InitCalc /\ [][NextCalc]_vars

\* ------------------------------------------------------------------------
\* Claims about compare_and_score (SpecScore)
\* ------------------------------------------------------------------------

\* The numeral dec is below 0.4
BelowFourTenths(dec) == dec.num * 10 < 4 * Pow(10, dec.scale)

\* compare_and_score has returned for a reply that carries a relevance_score
RatedReplyScored ==
    /\ score_out # <<>>
    /\ score_in.reply.kind = "json"
    /\ "relevance_score" \in score_in.reply.keys

\* C10: compare_and_score returns None for a reply whose relevance_score is
\* below 0.4, whatever its matching and conflicting lists hold, and an
\* analysis for a reply whose relevance_score is 0.4 or above.
C10_RelevanceGate ==
    RatedReplyScored
        => (score_out[1] = <<>> <=> BelowFourTenths(score_in.reply.relevance_score))

\* A reply with relevance_score 0.39 and a matching fact was scored: None
C10_JustBelowGated ==
    /\ RatedReplyScored
    /\ score_in.reply.relevance_score = [num |-> 39, scale |-> 2]
    /\ score_in.reply.matching # <<>>
    /\ score_out[1] = <<>>

\* ------------------------------------------------------------------------
\* Claims about the analyze workflow (SpecAnalyze, SpecConcurrent)
\* ------------------------------------------------------------------------

\* Request r takes the step that ends an attempt
Concludes(r) == requests[r].pc = "conclude" /\ requests'[r] # requests[r]

\* The sources among analyses that the report does not count yet
NewlyAdded(report, analyses) ==
    Range(ComparisonIds(analyses)) \ Range(report.individual_analyses)

\* C3: every merge of new analyses into a Report adds to its sources_checked
\* the number of newly added sources, those the Report did not count before.
C3_MergeMonotonicity ==
    [][\A r \in Requests :
           (/\ Concludes(r)
            /\ requests[r].existing_report # 0
            /\ requests[r].analyses # <<>>
            /\ reports' # reports)
           => reports'[requests[r].existing_report].sources_checked
                  = reports[requests[r].existing_report].sources_checked
                    + Cardinality(NewlyAdded(reports[requests[r].existing_report],
                                             requests[r].analyses))]_vars

\* A merged Report counts a source twice
C3_MergedCountsSourceTwice ==
    \E k \in DOMAIN reports :
        /\ reports[k].is_merged
        /\ Cardinality(Range(reports[k].individual_analyses)) < reports[k].sources_checked

\* An Analysis of the comparison article against an earlier Article of the
\* same original (an Article with the url of original_article_id) is stored
AnalyzedBefore(original_article_id, comparison_article_id) ==
    \E k \in DOMAIN analysis_table :
        /\ analysis_table[k].comparison_article_id = comparison_article_id
        /\ analysis_table[k].original_article_id # original_article_id
        /\ articles[analysis_table[k].original_article_id].url
               = articles[original_article_id].url

\* C4: when an original article is analyzed again, the comparator is not
\* called for a source of which an Analysis against that original is
\* stored: the stored Analysis is reused.
C4_ReuseWithoutCall ==
    [][\A i \in DOMAIN comparator_call' :
           ~AnalyzedBefore(comparator_call'[i].original_article_id,
                           comparator_call'[i].comparison_article_id)]_vars

\* The comparator has been called for a source analyzed before against the
\* same original
C4_ComparedAgain ==
    \E i \in DOMAIN comparator_call :
        AnalyzedBefore(comparator_call[i].original_article_id,
                       comparator_call[i].comparison_article_id)

\* The Reports of the Articles stored for the url
ReportsOfUrl(url) ==
    {k \in DOMAIN reports : articles[reports[k].original_article_id].url = url}

\* C5: under every interleaving of the steps of two requests for the same
\* original article, at most one Report exists for the article.
C5_AtMostOneReport == Cardinality(ReportsOfUrl(OriginalUrl)) <= 1

\* Both requests have responded with a Report of their own
C5_BothCreated ==
    /\ \A r \in Requests : requests[r].pc = "done"
    /\ \E k1, k2 \in DOMAIN reports :
           /\ reports[k1].original_article_id # reports[k2].original_article_id
           /\ ~reports[k1].is_merged /\ ~reports[k2].is_merged

\* C6: a request creates a Report only in an attempt where no Report exists
\* for its original article at that moment; a Report of an earlier attempt
\* counts as existing.
C6_CreatesOnlyWhenNoneExists ==
    [][\A r \in Requests :
           (Concludes(r) /\ Len(reports') > Len(reports))
           => FirstReport(requests[r].original_article) = 0]_vars

\* Two Reports exist for one Article
C6_SecondReportCreated ==
    \E k1, k2 \in DOMAIN reports :
        k1 # k2 /\ reports[k1].original_article_id = reports[k2].original_article_id

\* The extractor's call failed for the original article of request r
ExtractionFailed(r) ==
    /\ requests[r].original_facts # <<>>
    /\ "error" \in requests[r].original_facts[1].keys

\* C11: when the extraction of the original article's facts fails, the
\* request ends with an error: it has stored no Article and does not go on
\* to the existing-report check or the search/compare loop.
C11_ExtractionFailureIsFatal ==
    \A r \in Requests :
        ExtractionFailed(r)
            => /\ requests[r].original_article = 0
               /\ requests[r].pc \notin {"check", "search", "analyze", "conclude"}

\* A request whose extraction failed is analyzing a source against the
\* Article it stored
C11_AnalyzesAfterFailedExtraction ==
    \E r \in Requests :
        /\ ExtractionFailed(r)
        /\ requests[r].pc = "analyze"
        /\ requests[r].original_article \in DOMAIN articles
        /\ articles[requests[r].original_article].source_type = "original"

\* Request r takes a step in which a commit fails: it responds with the
\* internal error
PersistenceFails(r) ==
    /\ requests[r].pc # "done"
    /\ requests'[r].pc = "done"
    /\ requests'[r].response[1].status = 500
    /\ requests'[r].response[1].error = PersistenceError

\* C12: when a commit fails during an analyze request, the store holds
\* none of the Analyses and Reports the request has written: no Analysis
\* and no Report of the request's original Article is left.
C12_NoPartialWrites ==
    [][\A r \in Requests :
           PersistenceFails(r)
           => /\ \A k \in DOMAIN analysis_table' :
                     analysis_table'[k].original_article_id # requests[r].original_article
              /\ \A k \in DOMAIN reports' :
                     reports'[k].original_article_id # requests[r].original_article]_vars

\* The first request has ended with the internal error of a failed commit,
\* the second has not arrived, and the store holds an Analysis
C12_AnalysisSurvivesFailure ==
    /\ requests[1].pc = "done"
    /\ requests[1].response[1].status = 500
    /\ requests[1].response[1].error = PersistenceError
    /\ \A r \in Requests \ {1} : requests[r].pc = "idle"
    /\ analysis_table # <<>>

\* What compare_and_score returns for the source of score_in when the
\* comparator's call fails
ScoredOnFailure ==
    CompareAndScore(CompareFacts(FailedCall), score_in.comparison_article_id,
                    score_in.source_type)

\* C13: for a reply of the comparator that is no JSON, compare_and_score
\* returns what it returns for the same source when the comparator's call
\* fails: None in both cases, or an analysis with the same accuracy_score.
C13_MalformedAsFailure ==
    (score_out # <<>> /\ score_in.reply = MalformedReply)
        => /\ Len(score_out[1]) = Len(ScoredOnFailure)
           /\ \A i \in DOMAIN score_out[1] :
                  score_out[1][i].accuracy_score = ScoredOnFailure[i].accuracy_score

\* A reply that is no JSON was scored: None, where a failed call gives an
\* analysis
C13_MalformedGated ==
    /\ score_out # <<>>
    /\ score_in.reply = MalformedReply
    /\ score_out[1] = <<>>
    /\ ScoredOnFailure # <<>>

\* ------------------------------------------------------------------------
\* Claims about optimize_search_queries (SpecQuery)
\* ------------------------------------------------------------------------

\* The facts hold a fact or a claim
NonEmptyFactSet(facts) == facts.what_facts # <<>> \/ facts.claims # <<>>

\* C14: for facts that are not empty, optimize_search_queries returns a
\* primary_query that is not empty, whatever the query generator does.
C14_PrimaryQueryNotEmpty ==
    (query_out # <<>> /\ NonEmptyFactSet(query_in.facts))
        => query_out[1].primary_query # <<>>

\* For an article with an event, the generator replied text that is no
\* JSON, and the call has returned
C14_MalformedReplyOptimized ==
    /\ query_out # <<>>
    /\ query_in.reply = MalformedQuery
    /\ query_in.facts.what_facts = <<WhatFact(MayorResigned)>>

\* ------------------------------------------------------------------------
\* Claims about the operations by id (SpecById)
\* ------------------------------------------------------------------------

\* C15: an operation by id that responds with a not-found condition leaves
\* the stored Articles, Analyses and Reports as they were.
C15_NotFoundHasNoEffect ==
    [][(by_id' # <<>> /\ by_id'[1].response.status = 404)
           => UNCHANGED <<articles, analysis_table, reports>>]_vars

\* reclassify_fact has responded 'Report not found' for an Analysis that
\* it left with a fact of its own making
C15_ReclassifiedWithoutReport ==
    /\ by_id # <<>>
    /\ by_id[1].op = "reclassify_fact"
    /\ by_id[1].response.status = 404
    /\ by_id[1].id \in DOMAIN analysis_table
    /\ \E i \in DOMAIN analysis_table[by_id[1].id].conflicting_facts :
           analysis_table[by_id[1].id].conflicting_facts[i].conflict_type
               = "user_reclassified"

\* ------------------------------------------------------------------------
\* Claims about the attempts of a request (SpecAnalyze)
\* ------------------------------------------------------------------------

\* The request has left the loop of attempts and responded with success
LeftTheLoop(r) ==
    /\ requests[r].pc = "done"
    /\ requests[r].response[1].status = 200
    /\ "total_attempts" \in DOMAIN requests[r].response[1]

\* The canned Report of the no-evidence path
NoEvidenceReport(report) ==
    /\ report.overall_score = FZero
    /\ report.confidence_level = "low"
    /\ report.sources_checked = 0

\* C16: a request that got past the processing of its article and was not
\* ended by an error responds with a Report; when no Analysis was
\* produced, that Report is the no-evidence Report.
C16_RespondsWithReport ==
    \A r \in Requests :
        LeftTheLoop(r) =>
            /\ requests[r].response[1].report_id \in DOMAIN reports
            /\ analysis_table = <<>>
                   => NoEvidenceReport(reports[requests[r].response[1].report_id])

\* A request has used up its attempts without an Analysis and responded
\* with success and no Report, and the store holds no Report at all
C16_RespondedWithoutReport ==
    \E r \in Requests :
        /\ LeftTheLoop(r)
        /\ requests[r].response[1].report_id = 0
        /\ reports = <<>>
        /\ analysis_table = <<>>

\* The request is in the loop of attempts
InLoop(r) == requests[r].pc \in {"search", "analyze", "conclude"}

\* The number of Analyses stored in table for an original article
AnalysesFor(table, original_article_id) ==
    Cardinality({i \in DOMAIN table :
                     table[i].original_article_id = original_article_id})

\* C17: a request makes at most 3 attempts, and exactly 1 in cheap mode; a
\* cheap-mode request stores at most 3 source Articles and 3 Analyses; and
\* a request that has entered the handler's main part responds.
C17_BoundedLoop ==
    /\ [](\A r \in Requests :
              InLoop(r) =>
                  /\ requests[r].max_attempts = IF requests[r].cheap_mode THEN 1 ELSE 3
                  /\ requests[r].attempt \in 1..requests[r].max_attempts)
    /\ [][\A r \in Requests :
              (InLoop(r) /\ requests[r].cheap_mode) =>
                  /\ Len(articles') - requests[r].original_article <= 3
                  /\ AnalysesFor(analysis_table', requests[r].original_article) <= 3]_vars
    /\ \A r \in Requests : (requests[r].pc = "check") ~> (requests[r].pc = "done")

\* A cheap-mode request whose search found four sources has fetched and
\* compared three of them and is about to report
C17_CheapRequestCapped ==
    \E r \in Requests :
        /\ requests[r].cheap_mode
        /\ requests[r].pc = "conclude"
        /\ Len(requests[r].sources) = 3
        /\ Len(requests[r].analyses) = 3
        /\ Len(articles) = requests[r].original_article + 3

\* The step ends the request r with an error
Errs(r) ==
    /\ requests'[r].pc = "done"
    /\ requests'[r].response[1].status # 200

\* The step of request r leaves the loop, and goes on to the next attempt
Stops(r) == requests'[r].pc = "done"

Proceeds(r) ==
    /\ requests'[r].pc = "search"
    /\ requests'[r].attempt = requests[r].attempt + 1

\* The id of the report the step leaves request r with, 0 for None
ReportLeft(r) ==
    IF requests'[r].pc = "done" THEN requests'[r].response[1].report_id
    ELSE requests'[r].report

\* The step is the end of an attempt of request r that had sources, and the
\* top of one in which no source survives the filter
AttemptEnds(r) ==
    /\ requests[r].pc = "conclude"
    /\ requests'[r] # requests[r]
    /\ ~Errs(r)

NoSourceSurvives(r) ==
    /\ requests[r].pc = "search"
    /\ requests'[r] # requests[r]
    /\ requests'[r].pc # "analyze"
    /\ ~Errs(r)

\* After an attempt that leaves a Report the loop stops iff attempt >=
\* maxAttempts or the Report's sources_checked >= 3, and otherwise runs
\* another attempt
RetryDecision(r) ==
    (AttemptEnds(r) /\ ReportLeft(r) # 0) =>
        /\ Stops(r) <=> \/ requests[r].attempt >= requests[r].max_attempts
                        \/ reports'[ReportLeft(r)].sources_checked >= 3
        /\ ~Stops(r) => Proceeds(r)

\* C18: the retry decision, and after an attempt in which no source survives
\* the filter the loop stops iff a Report exists or the attempts are used up,
\* and otherwise goes on to the next attempt.
C18_RetryDecision ==
    [][\A r \in Requests :
           /\ RetryDecision(r)
           /\ NoSourceSurvives(r) =>
                  /\ Stops(r) <=> \/ requests[r].report # 0
                                  \/ requests[r].attempt >= requests[r].max_attempts
                  /\ ~Stops(r) => Proceeds(r)]_vars

\* C18 as stated: the retry decision, and after an attempt in which no
\* source survives the filter the loop stops iff a Report exists, and
\* otherwise goes on to the next attempt.
C18_StopsOnlyWithReport ==
    [][\A r \in Requests :
           /\ RetryDecision(r)
           /\ NoSourceSurvives(r) =>
                  /\ Stops(r) <=> requests[r].report # 0
                  /\ ~Stops(r) => Proceeds(r)]_vars

\* A request is in its second attempt, after an attempt that left a Report
\* of fewer than 3 sources
C18_RetriedWithReport ==
    \E r \in Requests :
        /\ requests[r].pc = "search"
        /\ requests[r].attempt = 2
        /\ requests[r].report \in DOMAIN reports
        /\ reports[requests[r].report].sources_checked < 3

\* ------------------------------------------------------------------------
\* Claims about merge_reports (SpecMerge)
\* ------------------------------------------------------------------------

\* C19: a merge_reports call with new analyses that returns has increased
\* the Report's merge_count by exactly 1 and set is_merged; a call with no
\* new analyses returns the Report and 0 and leaves the reports as they
\* were.
C19_MergeCounts ==
    [][(merge_call' # <<>> /\ merge_call'[1].returned) =>
           IF merge_call'[1].new_analyses # <<>>
           THEN /\ reports'[merge_call'[1].existing_report].merge_count
                       = reports[merge_call'[1].existing_report].merge_count + 1
                /\ reports'[merge_call'[1].existing_report].is_merged
           ELSE /\ merge_call'[1].report = merge_call'[1].existing_report
                /\ merge_call'[1].new_sources_count = 0
                /\ reports' = reports]_vars

\* merge_reports has returned from a call with no new analyses on a Report
\* that an earlier call has merged into
C19_EmptyMergeAfterMerge ==
    /\ merge_call # <<>>
    /\ merge_call[1].returned
    /\ merge_call[1].new_analyses = <<>>
    /\ reports[merge_call[1].existing_report].merge_count >= 1
    /\ reports[merge_call[1].existing_report].last_updated < clock - 1

\* ------------------------------------------------------------------------
\* Claims about cheap mode (SpecAnalyze)
\* ------------------------------------------------------------------------

\* A Report is stored whose original article has the url
AnalyzedUrl(url) ==
    \E k \in DOMAIN reports :
        /\ reports[k].original_article_id \in DOMAIN articles
        /\ articles[reports[k].original_article_id].url = url

\* C20: a cheap-mode request for a url that a stored Report has as its
\* original article, once its page is fetched, responds with a stored Report
\* at once and leaves the Analyses and Reports as they were.
C20_CheapModeReuses ==
    [][\A r \in Requests :
           (/\ requests[r].pc = "process"
            /\ requests[r].cheap_mode
            /\ AnalyzedUrl(requests[r].url)
            /\ articles' # articles)
               => /\ requests'[r].pc = "done"
                  /\ requests'[r].response[1].status = 200
                  /\ requests'[r].response[1].report_id \in DOMAIN reports
                  /\ UNCHANGED <<analysis_table, reports>>]_vars

\* A cheap-mode request for a url analyzed before has gone into the loop
\* and stored an Analysis of its own
C20_CheapModeAnalyzesAgain ==
    \E r \in Requests :
        /\ requests[r].cheap_mode
        /\ InLoop(r)
        /\ requests[r].existing_report \in DOMAIN reports
        /\ articles[reports[requests[r].existing_report].original_article_id].url
               = requests[r].url
        /\ AnalysesFor(analysis_table, requests[r].original_article) >= 1

\* ------------------------------------------------------------------------
\* Claims about the scoring functions (SpecCalc)
\* ------------------------------------------------------------------------

\* 0 <= x <= 100
InScoreRange(x) == ~FLess(x, FZero) /\ ~FLess(Literal(1000, 1), x)

\* C21: the scores that _calculate_comparison_score and rescore_analysis
\* return, and the one _calculate_overall_score returns for analyses scored
\* within [0, 100], lie in [0, 100].
C21_ScoresBounded ==
    (/\ calc_out # <<>>
     /\ calc_in.fn \in {"_calculate_comparison_score", "rescore_analysis",
                        "_calculate_overall_score"})
        => InScoreRange(calc_out[1])

\* _calculate_overall_score has returned for three analyses scored 100.0 from
\* sources of three different weights
C21_FullScoresAveraged ==
    /\ calc_out # <<>>
    /\ calc_in.fn = "_calculate_overall_score"
    /\ Len(calc_in.analyses) = 3
    /\ \A i \in 1..3 : calc_in.analyses[i].accuracy_score = Literal(1000, 1)
    /\ calc_in.analyses[1].analysis_details.source_type = "official"
    /\ calc_in.analyses[2].analysis_details.source_type = "news_general"
    /\ calc_in.analyses[3].analysis_details.source_type = "social"

\* C22: generate_final_report called with no analyses adds a Report with
\* overall_score 0.0, confidence_level 'low' and sources_checked 0.
C22_NoEvidenceReport ==
    (/\ calc_out # <<>>
     /\ calc_in.fn = "generate_final_report"
     /\ calc_in.analyses = <<>>
     /\ calc_out[1] # 0)
        => /\ calc_out[1] \in DOMAIN reports
           /\ reports[calc_out[1]].original_article_id = calc_in.original_article_id
           /\ NoEvidenceReport(reports[calc_out[1]])

\* generate_final_report has returned the Report it added for no analyses
C22_ReportedWithoutAnalyses ==
    /\ calc_out # <<>>
    /\ calc_in.fn = "generate_final_report"
    /\ calc_in.analyses = <<>>
    /\ calc_out[1] \in DOMAIN reports

\* ------------------------------------------------------------------------
\* Claims about reclassify_fact (SpecById)
\* ------------------------------------------------------------------------

\* The step is a reclassify_fact that responds with success
ReclassifySucceeds ==
    /\ by_id' # <<>>
    /\ by_id'[1].op = "reclassify_fact"
    /\ by_id'[1].response.status = 200

\* C23: after a successful reclassify_fact the Report of the Analysis's
\* original article holds the overall score and the confidence level of the
\* Analyses stored for that article, the reclassified Analysis holds the
\* score of its new lists, and every other Analysis is as it was.
C23_ReportRecomputed ==
    [][ReclassifySucceeds =>
           /\ \E k \in DOMAIN reports' :
                  /\ reports'[k].original_article_id
                         = analysis_table'[by_id'[1].id].original_article_id
                  /\ reports'[k].overall_score
                         = CalculateOverallScore(
                               RowsAsDicts(analysis_table',
                                           analysis_table'[by_id'[1].id].original_article_id))
                  /\ reports'[k].confidence_level
                         = DetermineConfidenceLevel(
                               RowsAsDicts(analysis_table',
                                           analysis_table'[by_id'[1].id].original_article_id))
           /\ analysis_table'[by_id'[1].id].accuracy_score
                  = RescoreAnalysis(analysis_table'[by_id'[1].id].matching_facts,
                                    analysis_table'[by_id'[1].id].conflicting_facts)
           /\ \A j \in DOMAIN analysis_table :
                  j # by_id'[1].id => analysis_table'[j] = analysis_table[j]]_vars

\* reclassify_fact has succeeded on an Analysis whose original article has
\* another Analysis, and has left it with a fact of its own making
C23_ReclassifiedAmongTwo ==
    /\ by_id # <<>>
    /\ by_id[1].op = "reclassify_fact"
    /\ by_id[1].response.status = 200
    /\ by_id[1].id \in DOMAIN analysis_table
    /\ AnalysesFor(analysis_table, analysis_table[by_id[1].id].original_article_id) = 2
    /\ \E i \in DOMAIN analysis_table[by_id[1].id].conflicting_facts :
           analysis_table[by_id[1].id].conflicting_facts[i].conflict_type
               = "user_reclassified"


\* ------------------------------------------------------------------------
\* Claims about _create_fallback_query (SpecQuery)
\* ------------------------------------------------------------------------

\* Every fact of the lists is a dict that carries an importance
AllRated(facts) ==
    /\ \A i \in DOMAIN facts.what_facts : "importance" \in DOMAIN facts.what_facts[i]
    /\ \A i \in DOMAIN facts.claims : "importance" \in DOMAIN facts.claims[i]

\* The first sentence of the text under key of the first fact of high
\* importance in rated, as a list of at most one query part
FirstHighPart(rated, key) ==
    LET high == SelectSeq(rated, LAMBDA f : f.importance = "high" /\ f[key] # <<>>)
    IN  IF high = <<>> THEN <<>> ELSE <<FirstSentence(high[1][key])>>

\* The query the fallback is described to build from rated facts
HighImportanceQuery(facts) ==
    LET parts == FirstHighPart(facts.what_facts, "event")
                 \o FirstHighPart(facts.claims, "claim")
    IN  IF parts = <<>> THEN News ELSE Join(parts)

\* C24: when the query generator fails, the primary_query is the first
\* sentence of the first WhatFact of high importance joined by one space
\* with the first sentence of the first Claim of high importance; facts of
\* medium or low importance never contribute, and the query is "news" iff
\* no fact qualifies.
C24_FallbackUsesHighImportance ==
    (query_out # <<>> /\ query_in.reply = FailedQuery /\ AllRated(query_in.facts))
        => query_out[1].primary_query = HighImportanceQuery(query_in.facts)

\* The generator failed for an article whose only fact is an event of low
\* importance, and the fallback returned the event's first sentence
C24_LowImportanceInQuery ==
    /\ query_out # <<>>
    /\ query_in.reply = FailedQuery
    /\ query_in.facts.what_facts = <<RatedWhatFact(TwoSentences, "low")>>
    /\ query_in.facts.claims = <<>>
    /\ query_out[1].primary_query = MayorResigned


\* ------------------------------------------------------------------------
\* Claims about _determine_confidence_level (SpecCalc)
\* ------------------------------------------------------------------------

\* The sum of a list of scores in hundredths
RECURSIVE SumOfHundredths(_)
SumOfHundredths(hundredths) ==
    IF hundredths = <<>> THEN 0
    ELSE Head(hundredths) + SumOfHundredths(Tail(hundredths))

\* The average of the scores is at least percent
AverageAtLeast(hundredths, percent) ==
    SumOfHundredths(hundredths) >= percent * 100 * Len(hundredths)

\* The level by the number of analyses and the average of their scores
LevelByAverage(hundredths) ==
    IF Len(hundredths) >= 5 /\ AverageAtLeast(hundredths, 80) THEN "high"
    ELSE IF Len(hundredths) >= 3 /\ AverageAtLeast(hundredths, 60) THEN "medium"
    ELSE "low"

RespondsWithReport(r) ==
    /\ requests[r].pc # "done"
    /\ requests'[r].pc = "done"
    /\ requests'[r].response[1].status = 200
    /\ "total_attempts" \in DOMAIN requests'[r].response[1]
    /\ requests'[r].response[1].report_id # 0

\* C26: after any sequence of completed analyze requests, the
\* sources_checked of the Report a request returns equals the number of
\* Analyses stored for the original article the Report belongs to.
C26_SourcesCheckedCountsStored ==
    [][\A r \in Requests :
           RespondsWithReport(r)
           => LET report == reports'[requests'[r].response[1].report_id]
              IN  report.sources_checked
                      = AnalysesFor(analysis_table', report.original_article_id)]_vars

\* A request has responded with a merged Report that counts more sources
\* than there are Analyses stored for the Report's original article
C26_CountsMoreThanStored ==
    \E r \in Requests :
        /\ LeftTheLoop(r)
        /\ requests[r].response[1].report_id \in DOMAIN reports
        /\ LET report == reports[requests[r].response[1].report_id]
           IN  /\ report.is_merged
               /\ report.sources_checked
                      > AnalysesFor(analysis_table, report.original_article_id)

\* C27: the evidence a merged Report is computed from never holds two
\* Analyses of the same comparison article: a source that has an Analysis
\* in the Report is filtered out or reused when the article is analyzed
\* again, not added and counted a second time.
C27_MergedEvidenceDistinct ==
    \A k \in DOMAIN reports :
        reports[k].is_merged
            => \A i, j \in DOMAIN reports[k].individual_analyses :
                   i # j => reports[k].individual_analyses[i]
                                # reports[k].individual_analyses[j]

\* An article was analyzed again, the comparator was called again for a
\* source that has an Analysis against the article's first Article, and
\* both Analyses of that source are stored
C27_SourceAnalyzedTwice ==
    \E k1, k2 \in DOMAIN analysis_table :
        /\ k1 < k2
        /\ analysis_table[k1].comparison_article_id
               = analysis_table[k2].comparison_article_id
        /\ analysis_table[k1].original_article_id
               # analysis_table[k2].original_article_id
        /\ \E k \in DOMAIN reports :
               /\ reports[k].is_merged
               /\ reports[k].original_article_id = analysis_table[k1].original_article_id
               /\ reports[k].individual_analyses
                      = <<analysis_table[k1].comparison_article_id,
                          analysis_table[k2].comparison_article_id>>


\* ------------------------------------------------------------------------
\* Claims about the stored Analyses of a request (SpecStored)
\* ------------------------------------------------------------------------

\* The stored Analysis of the pair has the lists of the analysis dict
StoredAs(table, original_article_id, analysis) ==
    \A k \in DOMAIN table :
        (/\ table[k].original_article_id = original_article_id
         /\ table[k].comparison_article_id = analysis.comparison_article_id)
        => /\ table[k].matching_facts = analysis.matching_facts
           /\ table[k].conflicting_facts = analysis.conflicting_facts

\* C28: when a request completes, the stored matching_facts and
\* conflicting_facts of every Analysis it created equal the reconciled lists
\* the Report was computed from: what the review removed is removed in the
\* stored Analysis.
C28_StoredFactsReconciled ==
    [][\A r \in Requests :
           (Concludes(r) /\ requests[r].analyses # <<>>)
           => \A i \in DOMAIN requests[r].analyses :
                  StoredAs(analysis_table', requests[r].original_article,
                           ReviewAnalysis(requests[r].analyses[i]))]_vars

\* The request has responded with a Report, and an Analysis stored for its
\* article holds a conflicting fact that the review had removed
C28_StoredUnreconciled ==
    /\ LeftTheLoop(1)
    /\ requests[1].response[1].report_id \in DOMAIN reports
    /\ \E k \in DOMAIN analysis_table :
           /\ analysis_table[k].original_article_id = requests[1].response[1].article_id
           /\ analysis_table[k].conflicting_facts # <<>>
           /\ ReviewAnalysis(AsDict(analysis_table[k])).conflicting_facts = <<>>


\* ------------------------------------------------------------------------
\* Claims about a second review (SpecReview)
\* ------------------------------------------------------------------------

\* The two lists of the analyses
FactLists(analyses) ==
    [i \in DOMAIN analyses |->
        [matching_facts |-> analyses[i].matching_facts,
         conflicting_facts |-> analyses[i].conflicting_facts]]

\* C29: review_and_reconcile_analyses is idempotent: applied to its own
\* output it changes the matching_facts and conflicting_facts of no
\* analysis, also when a matching fact is about the same fact as more than
\* one conflicting fact.
C29_ReviewIdempotent ==
    reviewed
        => FactLists(ReviewAndReconcileAnalyses(reconciled_analyses))
               = FactLists(reconciled_analyses)

\* An analysis whose facts are all dicts has been reviewed, and a second
\* review removes one of its matching facts
C29_SecondReviewRemoves ==
    /\ reviewed
    /\ \E i \in DOMAIN reconciled_analyses :
           /\ \A k \in DOMAIN analyses_in[i].matching_facts :
                  analyses_in[i].matching_facts[k].kind = "dict"
           /\ \A k \in DOMAIN analyses_in[i].conflicting_facts :
                  analyses_in[i].conflicting_facts[k].kind = "dict"
           /\ Len(ReviewAnalysis(reconciled_analyses[i]).matching_facts)
                  < Len(reconciled_analyses[i].matching_facts)


\* ------------------------------------------------------------------------
\* Claims about the calls of a request (SpecAnalyze)
\* ------------------------------------------------------------------------

\* C30: within one request the extractor and the comparator are called at
\* most once for a comparison article, over all attempts: a source handled
\* in an earlier attempt, one discarded by the relevance gate included, is
\* not compared again in a later attempt.
C30_ComparedOnce == \A i \in DOMAIN comparator_call : ~comparator_call[i].again

\* A request in its second attempt has compared a source for the second
\* time, the relevance gate discards it again, and no Analysis of the source
\* is stored
C30_GatedSourceComparedAgain ==
    \E r \in Requests :
        /\ requests[r].attempt = 2
        /\ comparator_call # <<>>
        /\ comparator_call[1].request = r
        /\ comparator_call[1].again
        /\ comparator_call[1].reply = OffTopicReply
        /\ FirstAnalysisComparing(comparator_call[1].comparison_article_id) = 0
====
